---------------------------- MODULE Spec2Model ----------------------------
(***************************************************************************)
(* Model of the agent configuration validator of specify_cli               *)
(* (src/src/specify_cli/backend/validation.py).                            *)
(*                                                                         *)
(* Text is a sequence of tokens: every literal the validator searches for  *)
(* is one token, "\n" and " " are the whitespace tokens and "x" is any     *)
(* other text.  A path is a sequence of components and a component is a    *)
(* sequence of name chunks, so that f"{cmd}.{extension}" is a              *)
(* concatenation and the glob "*.<extension>" is a suffix match.           *)
(***************************************************************************)
EXTENDS Integers, Sequences, FiniteSets, TLC

VARIABLES
    registry,   \* agent_config: the ordered mapping agent key -> profile
    fs,         \* the filesystem snapshot under project_root
    issues,     \* AgentValidator.issues
    warnings,   \* AgentValidator.warnings
    detected,   \* detected_agents of validate_all, in insertion order
    idx,        \* position of the loop of validate_all in detected
    pc,         \* position inside validate_all
    result,     \* the tuple validate_all returned, NoResult before it returns
    runs,       \* validation passes started over the snapshot
    prev,       \* the tuple the previous pass returned, NoResult before
    cli,        \* the `validate` command: what it printed last, its exit status
    scripts     \* ensure_executable_scripts: the tree under scripts_root, its loop

vars ==
    <<registry, fs, issues, warnings, detected, idx, pc, result, runs, prev, cli,
      scripts>>

----------------------------------------------------------------------------
(* Bounds *)

MaxFiles == 2       \* files with content in one snapshot
MaxRuns  == 2       \* validation passes over one snapshot
MaxLen   == 5       \* tokens of a file given to a format validator

----------------------------------------------------------------------------
(* Python values *)

NULL   == <<>>                  \* config["folder"] is None
NOFILE == <<<<"<no file>">>>>   \* a finding without a "file" key
NOSEV  == "<no severity>"       \* a finding without a "severity" key
NOKEY  == <<"<no folder>">>     \* a profile without a "folder" key

\* nodes of the snapshot: a directory, a text file, a file whose read_text
\* raises (I/O or UTF-8 decode error)
DirNode        == [kind |-> "dir", text |-> <<>>]
FileNode(text) == [kind |-> "file", text |-> text]
Unreadable     == [kind |-> "unreadable", text |-> <<>>]

Range(s) == {s[i] : i \in 1..Len(s)}

\* s[a..b] as a sequence (empty when a > b)
Slice(s, a, b) == [i \in 1..(IF b >= a THEN b - a + 1 ELSE 0) |-> s[a + i - 1]]

\* sequences over S of length at most n
SeqUpTo(S, n) == UNION {[1..k -> S] : k \in 0..n}

----------------------------------------------------------------------------
(* str and re operations on token sequences *)

WS == {"\n", " "}

\* the literals of which a token holds an occurrence
Holds(tok) ==
    IF tok = "Active Technologies" THEN {"Active Technologies", "Technologies"}
    ELSE {tok}

\* str.lower(), token by token
LowerTok(tok) ==
    CASE tok = "Scripts/"            -> "scripts/"
      [] tok = "{SCRIPT}"            -> "{script}"
      [] tok = "$ARGUMENTS"          -> "$arguments"
      [] tok = "{ARGS}"              -> "{args}"
      [] tok = "Active Technologies" -> "active technologies"
      [] tok = "Technologies"        -> "technologies"
      [] tok = "[PROJECT NAME]"      -> "[project name]"
      [] tok = "[DATE]"              -> "[date]"
      [] OTHER                       -> tok

Lower(text) == [i \in 1..Len(text) |-> LowerTok(text[i])]

\* `lit in text`
Contains(text, lit) == \E i \in 1..Len(text) : lit \in Holds(text[i])

\* StartsWith accepting lit anywhere in text
StartsWith_Anywhere(text, lit) == \E i \in 1..Len(text) : text[i] = lit

\* text.startswith(lit)
StartsWith(text, lit) == Len(text) >= 1 /\ text[1] = lit

\* text.find(lit): the first position of lit, 0 when there is none
Find(text, lit) ==
    IF \E i \in 1..Len(text) : text[i] = lit
    THEN CHOOSE i \in 1..Len(text) :
             text[i] = lit /\ \A j \in 1..(i - 1) : text[j] # lit
    ELSE 0

\* text.split(sep, maxsplit)
RECURSIVE Split(_, _, _)
Split(text, sep, maxsplit) ==
    LET at == Find(text, sep) IN
    IF maxsplit = 0 \/ at = 0 THEN <<text>>
    ELSE <<Slice(text, 1, at - 1)>>
         \o Split(Slice(text, at + 1, Len(text)), sep, maxsplit - 1)

\* position i is where `^` matches under re.MULTILINE
LineStart(text, i) == i = 1 \/ text[i - 1] = "\n"

\* SearchKey without the `^` anchor
SearchKey_Unanchored(text, key) == \E j \in 1..Len(text) : text[j] = key

\* re.search(r'^\s*<key>', text, re.MULTILINE)
SearchKey(text, key) ==
    \E i \in 1..Len(text) : \E j \in i..Len(text) :
        /\ LineStart(text, i)
        /\ \A k \in i..(j - 1) : text[k] \in WS
        /\ text[j] = key

\* SearchAssign without the `^` anchor
SearchAssign_Unanchored(text, name) ==
    \E j \in 1..Len(text) : \E e \in (j + 1)..Len(text) :
        /\ text[j] = name
        /\ \A k \in (j + 1)..(e - 1) : text[k] \in WS
        /\ text[e] = "="

\* re.search(r'^\s*<name>\s*=', text, re.MULTILINE)
SearchAssign(text, name) ==
    \E i \in 1..Len(text) : \E j \in i..Len(text) : \E e \in (j + 1)..Len(text) :
        /\ LineStart(text, i)
        /\ \A k \in i..(j - 1) : text[k] \in WS
        /\ text[j] = name
        /\ \A k \in (j + 1)..(e - 1) : text[k] \in WS
        /\ text[e] = "="

----------------------------------------------------------------------------
(* pathlib operations on the snapshot *)

project_root == <<>>

\* dir / name
Join(dir, name) == Append(dir, name)

\* Path.exists()
Exists(p) == p \in DOMAIN fs.nodes

IsDir(p) == Exists(p) /\ fs.nodes[p].kind = "dir"

\* the component matches the pattern "*.<extension>"
Matches(name, extension) ==
    /\ Len(name) >= Len(extension)
    /\ Slice(name, Len(name) - Len(extension) + 1, Len(name)) = extension

RECURSIVE Filter(_, _)
Filter(names, extension) ==
    IF names = <<>> THEN <<>>
    ELSE (IF Matches(Head(names), extension) THEN <<Head(names)>> ELSE <<>>)
         \o Filter(Tail(names), extension)

\* list(dir.glob(f"*.{extension}")): the matching entries, in the order in
\* which the filesystem lists the directory
Glob(dir, extension) ==
    IF IsDir(dir)
    THEN [i \in 1..Len(Filter(fs.ls[dir], extension)) |->
              Join(dir, Filter(fs.ls[dir], extension)[i])]
    ELSE <<>>

\* the chunks of f".{extension}"
Ext(extension) ==
    CASE extension = "toml"     -> <<".toml">>
      [] extension = "agent.md" -> <<".agent", ".md">>
      [] extension = "md"       -> <<".md">>

\* Path.read_text(encoding="utf-8") raises on p
ReadFails(p) == ~Exists(p) \/ fs.nodes[p].kind # "file"

\* Path.read_text(encoding="utf-8")
ReadText(p) == fs.nodes[p].text

----------------------------------------------------------------------------
(* AgentValidator._detect_agents *)

\* paths[role] = p
Put(paths, role, p) ==
    [r \in DOMAIN paths \cup {role} |-> IF r = role THEN p ELSE paths[r]]

\* PutIfExists without the `if p.exists()`
PutIfExists_Always(paths, role, p) == Put(paths, role, p)

\* if p.exists(): paths[role] = p
PutIfExists(paths, role, p) == IF Exists(p) THEN Put(paths, role, p) ELSE paths

\* PutRules recording the rules file without the rules directory
PutRules_FileOnly(paths, agent_dir, rules_name) ==
    PutIfExists(paths, "context_file",
                Join(Join(agent_dir, <<"rules">>), rules_name))

\* rules_dir with its rules file inside (cursor-agent, windsurf, kilocode,
\* auggie, roo)
PutRules(paths, agent_dir, rules_name) ==
    LET rules_dir  == Join(agent_dir, <<"rules">>)
        rules_file == Join(rules_dir, rules_name)
    IN  IF Exists(rules_dir)
        THEN PutIfExists(Put(paths, "rules", rules_dir), "context_file", rules_file)
        ELSE paths

\* the branch of _detect_agents for one agent key
AgentPaths(agent_key, agent_dir) ==
    LET paths       == [r \in {"dir"} |-> agent_dir]
        root_file(n) == Join(project_root, n)
        sub(n)       == Join(agent_dir, <<n>>)
    IN
    CASE agent_key = "claude" ->
           PutIfExists(PutIfExists(paths, "context_file", root_file(<<"CLAUDE", ".md">>)),
                       "commands", sub("commands"))
      [] agent_key = "gemini" ->
           PutIfExists(PutIfExists(paths, "context_file", root_file(<<"GEMINI", ".md">>)),
                       "commands", sub("commands"))
      [] agent_key = "copilot" ->
           LET agents_dir   == sub("agents")
               with_dirs    == PutIfExists(PutIfExists(paths, "agents", agents_dir),
                                           "prompts", sub("prompts"))
               instructions == Join(agents_dir, <<"copilot-instructions", ".md">>)
           IN  IF Exists(agents_dir) /\ Exists(instructions)
               THEN Put(with_dirs, "context_file", instructions)
               ELSE with_dirs
      [] agent_key = "cursor-agent" ->
           PutIfExists(PutRules(paths, agent_dir, <<"specify-rules", ".mdc">>),
                       "commands", sub("commands"))
      [] agent_key = "qwen" ->
           PutIfExists(PutIfExists(paths, "context_file", root_file(<<"QWEN", ".md">>)),
                       "commands", sub("commands"))
      [] agent_key = "opencode" ->
           PutIfExists(paths, "commands", sub("command"))
      [] agent_key = "codex" ->
           PutIfExists(paths, "prompts", sub("prompts"))
      [] agent_key \in {"windsurf", "kilocode"} ->
           PutIfExists(PutRules(paths, agent_dir, <<"specify-rules", ".md">>),
                       "workflows", sub("workflows"))
      [] agent_key = "auggie" ->
           PutIfExists(PutRules(paths, agent_dir, <<"specify-rules", ".md">>),
                       "commands", sub("commands"))
      [] agent_key = "roo" ->
           PutRules(paths, agent_dir, <<"specify-rules", ".md">>)
      [] agent_key = "codebuddy" ->
           PutIfExists(PutIfExists(paths, "context_file", root_file(<<"CODEBUDDY", ".md">>)),
                       "commands", sub("commands"))
      [] agent_key = "qoder" ->
           PutIfExists(PutIfExists(paths, "context_file", root_file(<<"QODER", ".md">>)),
                       "commands", sub("commands"))
      [] agent_key \in {"q", "amp", "bob"} ->
           LET with_ctx == PutIfExists(paths, "context_file", root_file(<<"AGENTS", ".md">>))
           IN  IF agent_key = "q"
               THEN PutIfExists(with_ctx, "prompts", sub("prompts"))
               ELSE PutIfExists(with_ctx, "commands", sub("commands"))
      [] agent_key = "shai" ->
           PutIfExists(PutIfExists(paths, "context_file", root_file(<<"SHAI", ".md">>)),
                       "commands", sub("commands"))
      [] OTHER -> paths

\* HasMoreThanDir without the test: every existing base directory counts
HasMoreThanDir_Always(paths) == TRUE

\* `if paths.keys() != {"dir"}`
HasMoreThanDir(paths) == DOMAIN paths # {"dir"}

\* the body of the loop of _detect_agents for one registry entry: the entry
\* appended to detected, or nothing
DetectOne(entry) ==
    IF entry.folder = NULL THEN <<>>
    ELSE LET agent_dir == Join(project_root, entry.folder) IN
         IF ~Exists(agent_dir) THEN <<>>
         ELSE LET paths == AgentPaths(entry.key, agent_dir) IN
              IF HasMoreThanDir(paths)
              THEN <<[key |-> entry.key, paths |-> paths]>>
              ELSE <<>>

RECURSIVE DetectFrom(_)
DetectFrom(entries) ==
    IF entries = <<>> THEN <<>>
    ELSE DetectOne(Head(entries)) \o DetectFrom(Tail(entries))

\* AgentValidator._detect_agents(): the dict as its items in insertion order
_detect_agents == DetectFrom(registry)

\* `folder = config["folder"]` raises KeyError in the loop of _detect_agents
DetectRaises == \E i \in 1..Len(registry) : registry[i].folder = NOKEY

----------------------------------------------------------------------------
(* Findings.  st is the pair of lists of the validator: [issues, warnings] *)

Issue(agent, category, file, message, arg) ==
    [agent |-> agent, category |-> category, severity |-> "error",
     file |-> file, message |-> message, arg |-> arg]

\* Warning recording every warning under the agent "none"
Warning_Unattributed(agent, category, file, message, arg) ==
    [agent |-> "none", category |-> category, severity |-> NOSEV,
     file |-> file, message |-> message, arg |-> arg]

Warning(agent, category, file, message, arg) ==
    [agent |-> agent, category |-> category, severity |-> NOSEV,
     file |-> file, message |-> message, arg |-> arg]

\* self.issues.append(f)
AddIssue(st, f) == [st EXCEPT !.issues = Append(@, f)]

\* AddWarning putting the finding at the head of the list
AddWarning_AtHead(st, f) == [st EXCEPT !.warnings = <<f>> \o @]

\* self.warnings.append(f)
AddWarning(st, f) == [st EXCEPT !.warnings = Append(@, f)]

\* `if cond: self.issues.append(f)`
IssueIf(st, cond, f) == IF cond THEN AddIssue(st, f) ELSE st

\* `if cond: self.warnings.append(f)`
WarnIf(st, cond, f) == IF cond THEN AddWarning(st, f) ELSE st

\* Path.relative_to(self.project_root)
RelativeTo(p) == Slice(p, Len(project_root) + 1, Len(p))

----------------------------------------------------------------------------
(* AgentValidator._get_expected_extension *)

\* _get_expected_extension without the TOML branch
_get_expected_extension_NoToml(agent_key) ==
    IF agent_key = "copilot" THEN "agent.md" ELSE "md"

_get_expected_extension(agent_key) ==
    IF agent_key \in {"gemini", "qwen"} THEN "toml"
    ELSE IF agent_key = "copilot" THEN "agent.md"
    ELSE "md"

----------------------------------------------------------------------------
(* AgentValidator._check_directory_structure *)

\* SingleRootAgents holding every agent with a commands role
SingleRootAgents_EveryCommandsAgent ==
    {"claude", "gemini", "cursor-agent", "qwen", "opencode", "codebuddy",
     "qoder", "shai", "auggie", "amp", "bob"}

SingleRootAgents ==
    {"claude", "gemini", "cursor-agent", "qwen", "opencode", "codebuddy",
     "qoder", "shai"}

\* WarnMissingDir recording the missing directory as an issue
WarnMissingDir_AsIssue(st, agent_key, agent_dir, n, message) ==
    LET d == Join(agent_dir, <<n>>) IN
    IssueIf(st, ~Exists(d),
            Issue(agent_key, "structure", NOFILE, message, RelativeTo(d)))

\* `if not d.exists(): self.warnings.append(...)` for the directory named n
WarnMissingDir(st, agent_key, agent_dir, n, message) ==
    LET d == Join(agent_dir, <<n>>) IN
    WarnIf(st, ~Exists(d),
           Warning(agent_key, "structure", NOFILE, message, RelativeTo(d)))

\* _check_directory_structure treating the agents directory of copilot as
\* optional: a warning when it is missing
_check_directory_structure_AgentsOptional(agent_key, paths, st) ==
    LET agent_dir == paths["dir"] IN
    IF agent_key \in SingleRootAgents
    THEN WarnMissingDir(st, agent_key, agent_dir, "commands",
                        "Expected commands directory not found")
    ELSE IF agent_key = "copilot"
    THEN WarnMissingDir(
             WarnMissingDir(st, agent_key, agent_dir, "agents",
                            "Expected agents directory not found"),
             agent_key, agent_dir, "prompts",
             "Expected prompts directory not found")
    ELSE IF agent_key \in {"windsurf", "kilocode"}
    THEN WarnMissingDir(
             WarnMissingDir(st, agent_key, agent_dir, "workflows",
                            "Expected workflows directory not found"),
             agent_key, agent_dir, "rules",
             "Expected rules directory not found")
    ELSE st

_check_directory_structure(agent_key, paths, st) ==
    IF "dir" \notin DOMAIN paths
    THEN AddIssue(st, Issue(agent_key, "structure", NOFILE,
                            "Agent directory not found", <<>>))
    ELSE LET agent_dir == paths["dir"] IN
         IF agent_key \in SingleRootAgents
         THEN WarnMissingDir(st, agent_key, agent_dir, "commands",
                             "Expected commands directory not found")
         ELSE IF agent_key = "copilot"
         THEN LET agents_dir == Join(agent_dir, <<"agents">>)
                  after      == IssueIf(st, ~Exists(agents_dir),
                                    Issue(agent_key, "structure", NOFILE,
                                          "Expected agents directory not found",
                                          RelativeTo(agents_dir)))
              IN  WarnMissingDir(after, agent_key, agent_dir, "prompts",
                                 "Expected prompts directory not found")
         ELSE IF agent_key \in {"windsurf", "kilocode"}
         THEN WarnMissingDir(
                  WarnMissingDir(st, agent_key, agent_dir, "workflows",
                                 "Expected workflows directory not found"),
                  agent_key, agent_dir, "rules",
                  "Expected rules directory not found")
         ELSE st

----------------------------------------------------------------------------
(* The format validators *)

\* _validate_markdown_format returning after the error of a missing
\* description
_validate_markdown_format_ShortCircuit(agent_key, cmd_file, content, st) ==
    LET relative_path == RelativeTo(cmd_file)
        parts         == Split(content, "---", 2)
    IN
    IF ~StartsWith(content, "---")
    THEN AddIssue(st, Issue(agent_key, "format", relative_path,
                            "Missing YAML frontmatter (should start with ---)", <<>>))
    ELSE IF Len(parts) < 3
    THEN AddIssue(st, Issue(agent_key, "format", relative_path,
                            "Invalid YAML frontmatter format", <<>>))
    ELSE IF ~SearchKey(parts[2], "description:")
    THEN AddIssue(st, Issue(agent_key, "format", relative_path,
                            "Missing 'description:' field in YAML frontmatter", <<>>))
    ELSE LET body == parts[3]
             s2 == WarnIf(st, ~Contains(body, "{SCRIPT}")
                                /\ ~Contains(Lower(body), "scripts/"),
                       Warning(agent_key, "content", relative_path,
                               "No {SCRIPT} placeholder or script reference found in command body",
                               <<>>))
         IN  WarnIf(s2, ~Contains(body, "$ARGUMENTS") /\ ~Contains(body, "{ARGS}")
                          /\ ~Contains(body, "{{args}}"),
                    Warning(agent_key, "content", relative_path,
                            "No argument placeholder ($ARGUMENTS, {ARGS}, {{args}}) found in command body",
                            <<>>))

_validate_markdown_format(agent_key, cmd_file, content, st) ==
    LET relative_path == RelativeTo(cmd_file)
        parts         == Split(content, "---", 2)
    IN
    IF ~StartsWith(content, "---")
    THEN AddIssue(st, Issue(agent_key, "format", relative_path,
                            "Missing YAML frontmatter (should start with ---)", <<>>))
    ELSE IF Len(parts) < 3
    THEN AddIssue(st, Issue(agent_key, "format", relative_path,
                            "Invalid YAML frontmatter format", <<>>))
    ELSE LET frontmatter == parts[2]
             body        == parts[3]
             s1 == IssueIf(st, ~SearchKey(frontmatter, "description:"),
                       Issue(agent_key, "format", relative_path,
                             "Missing 'description:' field in YAML frontmatter", <<>>))
             s2 == WarnIf(s1, ~Contains(body, "{SCRIPT}")
                                /\ ~Contains(Lower(body), "scripts/"),
                       Warning(agent_key, "content", relative_path,
                               "No {SCRIPT} placeholder or script reference found in command body",
                               <<>>))
         IN  WarnIf(s2, ~Contains(body, "$ARGUMENTS") /\ ~Contains(body, "{ARGS}")
                          /\ ~Contains(body, "{{args}}"),
                    Warning(agent_key, "content", relative_path,
                            "No argument placeholder ($ARGUMENTS, {ARGS}, {{args}}) found in command body",
                            <<>>))

_validate_toml_format(agent_key, cmd_file, content, st) ==
    LET relative_path == RelativeTo(cmd_file)
        s1 == IssueIf(st, ~SearchAssign(content, "description"),
                  Issue(agent_key, "format", relative_path,
                        "Missing 'description =' field in TOML file", <<>>))
        s2 == IssueIf(s1, ~SearchAssign(content, "prompt"),
                  Issue(agent_key, "format", relative_path,
                        "Missing 'prompt =' field in TOML file", <<>>))
    IN  WarnIf(s2, ~Contains(content, "{{args}}") /\ Contains(content, "$ARGUMENTS"),
               Warning(agent_key, "format", relative_path,
                       "TOML format should use {{args}} instead of $ARGUMENTS", <<>>))

\* _validate_copilot_format recording a missing `mode:` as an error
_validate_copilot_format_ModeRequired(agent_key, cmd_file, content, st) ==
    LET relative_path == RelativeTo(cmd_file)
        parts         == Split(content, "---", 2)
    IN
    IF ~StartsWith(content, "---")
    THEN AddIssue(st, Issue(agent_key, "format", relative_path,
                            "Missing YAML frontmatter (should start with ---)", <<>>))
    ELSE IF Len(parts) < 3
    THEN AddIssue(st, Issue(agent_key, "format", relative_path,
                            "Invalid YAML frontmatter format", <<>>))
    ELSE LET frontmatter == parts[2]
             s1 == IssueIf(st, ~SearchKey(frontmatter, "mode:"),
                       Issue(agent_key, "format", relative_path,
                             "Missing 'mode:' field in YAML frontmatter (recommended for Copilot)",
                             <<>>))
         IN  IssueIf(s1, ~SearchKey(frontmatter, "description:"),
                     Issue(agent_key, "format", relative_path,
                           "Missing 'description:' field in YAML frontmatter", <<>>))

_validate_copilot_format(agent_key, cmd_file, content, st) ==
    LET relative_path == RelativeTo(cmd_file)
        parts         == Split(content, "---", 2)
    IN
    IF ~StartsWith(content, "---")
    THEN AddIssue(st, Issue(agent_key, "format", relative_path,
                            "Missing YAML frontmatter (should start with ---)", <<>>))
    ELSE IF Len(parts) < 3
    THEN AddIssue(st, Issue(agent_key, "format", relative_path,
                            "Invalid YAML frontmatter format", <<>>))
    ELSE LET frontmatter == parts[2]
             s1 == WarnIf(st, ~SearchKey(frontmatter, "mode:"),
                       Warning(agent_key, "format", relative_path,
                               "Missing 'mode:' field in YAML frontmatter (recommended for Copilot)",
                               <<>>))
         IN  IssueIf(s1, ~SearchKey(frontmatter, "description:"),
                     Issue(agent_key, "format", relative_path,
                           "Missing 'description:' field in YAML frontmatter", <<>>))

----------------------------------------------------------------------------
(* AgentValidator._validate_command_file and _check_command_files *)

\* f"Failed to read {file_type} file: {e}"
ReadFailure(file_type) ==
    CASE file_type = "command"  -> "Failed to read command file"
      [] file_type = "workflow" -> "Failed to read workflow file"
      [] file_type = "prompt"   -> "Failed to read prompt file"

\* _validate_command_file choosing the validator from the content: a text
\* holding `prompt` goes to the TOML validator
_validate_command_file_Sniffing(agent_key, cmd_file, file_type, st) ==
    IF ReadFails(cmd_file)
    THEN AddIssue(st, Issue(agent_key, "commands", RelativeTo(cmd_file),
                            ReadFailure(file_type), <<>>))
    ELSE LET content == ReadText(cmd_file) IN
         IF agent_key \in {"gemini", "qwen"} \/ Contains(content, "prompt")
         THEN _validate_toml_format(agent_key, cmd_file, content, st)
         ELSE IF agent_key = "copilot"
         THEN _validate_copilot_format(agent_key, cmd_file, content, st)
         ELSE _validate_markdown_format(agent_key, cmd_file, content, st)

_validate_command_file(agent_key, cmd_file, file_type, st) ==
    IF ReadFails(cmd_file)
    THEN AddIssue(st, Issue(agent_key, "commands", RelativeTo(cmd_file),
                            ReadFailure(file_type), <<>>))
    ELSE LET content == ReadText(cmd_file) IN
         IF agent_key \in {"gemini", "qwen"}
         THEN _validate_toml_format(agent_key, cmd_file, content, st)
         ELSE IF agent_key = "copilot"
         THEN _validate_copilot_format(agent_key, cmd_file, content, st)
         ELSE _validate_markdown_format(agent_key, cmd_file, content, st)

\* ValidateEach leaving the loop at the first file that cannot be read
RECURSIVE ValidateEach_StopAtFailure(_, _, _, _)
ValidateEach_StopAtFailure(agent_key, command_files, file_type, st) ==
    IF command_files = <<>> THEN st
    ELSE IF ReadFails(Head(command_files))
    THEN _validate_command_file(agent_key, Head(command_files), file_type, st)
    ELSE ValidateEach_StopAtFailure(agent_key, Tail(command_files), file_type,
             _validate_command_file(agent_key, Head(command_files), file_type, st))

\* `for cmd_file in command_files: self._validate_command_file(...)`
RECURSIVE ValidateEach(_, _, _, _)
ValidateEach(agent_key, command_files, file_type, st) ==
    IF command_files = <<>> THEN st
    ELSE ValidateEach(agent_key, Tail(command_files), file_type,
             _validate_command_file(agent_key, Head(command_files), file_type, st))

\* f"No {file_type} files found in {rel}"
NoFilesFound(file_type) ==
    CASE file_type = "command"  -> "No command files found"
      [] file_type = "workflow" -> "No workflow files found"
      [] file_type = "prompt"   -> "No prompt files found"

_check_command_files(agent_key, commands_dir, file_type, st) ==
    IF ~Exists(commands_dir) THEN st
    ELSE LET extension     == _get_expected_extension(agent_key)
             command_files == Glob(commands_dir, Ext(extension))
         IN  IF command_files = <<>>
             THEN AddWarning(st, Warning(agent_key, "commands", NOFILE,
                                         NoFilesFound(file_type),
                                         RelativeTo(commands_dir)))
             ELSE ValidateEach(agent_key, command_files, file_type, st)

----------------------------------------------------------------------------
(* AgentValidator._check_context_file *)

\* _check_context_file with its four checks chained by elif: only the
\* first that applies is reported
_check_context_file_FirstOnly(agent_key, context_file, st) ==
    LET relative_path == RelativeTo(context_file) IN
    IF ReadFails(context_file)
    THEN AddIssue(st, Issue(agent_key, "context", relative_path,
                            "Failed to read context file", <<>>))
    ELSE LET content == ReadText(context_file) IN
         IF Contains(content, "<!-- MANUAL ADDITIONS START -->")
               /\ ~Contains(content, "<!-- MANUAL ADDITIONS END -->")
         THEN AddWarning(st, Warning(agent_key, "context", relative_path,
                  "Found MANUAL ADDITIONS START marker but missing END marker", <<>>))
         ELSE IF Contains(content, "[PROJECT NAME]")
         THEN AddWarning(st, Warning(agent_key, "context", relative_path,
                  "Context file contains unreplaced [PROJECT NAME] placeholder", <<>>))
         ELSE IF Contains(content, "[DATE]")
         THEN AddWarning(st, Warning(agent_key, "context", relative_path,
                  "Context file contains unreplaced [DATE] placeholder", <<>>))
         ELSE WarnIf(st, ~Contains(content, "Active Technologies")
                           /\ ~Contains(content, "Technologies"),
                     Warning(agent_key, "context", relative_path,
                             "Context file may be missing 'Active Technologies' section",
                             <<>>))

_check_context_file(agent_key, context_file, st) ==
    LET relative_path == RelativeTo(context_file) IN
    IF ReadFails(context_file)
    THEN AddIssue(st, Issue(agent_key, "context", relative_path,
                            "Failed to read context file", <<>>))
    ELSE LET content == ReadText(context_file)
             s1 == WarnIf(st, Contains(content, "<!-- MANUAL ADDITIONS START -->")
                                /\ ~Contains(content, "<!-- MANUAL ADDITIONS END -->"),
                       Warning(agent_key, "context", relative_path,
                               "Found MANUAL ADDITIONS START marker but missing END marker",
                               <<>>))
             s2 == WarnIf(s1, Contains(content, "[PROJECT NAME]"),
                       Warning(agent_key, "context", relative_path,
                               "Context file contains unreplaced [PROJECT NAME] placeholder",
                               <<>>))
             s3 == WarnIf(s2, Contains(content, "[DATE]"),
                       Warning(agent_key, "context", relative_path,
                               "Context file contains unreplaced [DATE] placeholder", <<>>))
         IN  WarnIf(s3, ~Contains(content, "Active Technologies")
                          /\ ~Contains(content, "Technologies"),
                    Warning(agent_key, "context", relative_path,
                            "Context file may be missing 'Active Technologies' section",
                            <<>>))

----------------------------------------------------------------------------
(* AgentValidator._check_required_commands *)

required_commands ==
    <<"specify", "plan", "tasks", "implement",
      "constitution", "clarify", "analyze", "checklist">>

\* the directory the required commands are looked up in; <<>> stands for None
RequiredDir(paths) ==
    IF "commands" \in DOMAIN paths THEN paths["commands"]
    ELSE IF "workflows" \in DOMAIN paths THEN paths["workflows"]
    ELSE IF "prompts" \in DOMAIN paths THEN paths["prompts"]
    ELSE IF "agents" \in DOMAIN paths THEN paths["agents"]
    ELSE <<>>

\* RequiredFile without the special naming of copilot
RequiredFile_NoCopilotNaming(agent_key, commands_dir, cmd) ==
    Join(commands_dir, <<cmd>> \o Ext(_get_expected_extension(agent_key)))

\* commands_dir / f"speckit-{cmd}.agent.md" or commands_dir / f"{cmd}.{extension}"
RequiredFile(agent_key, commands_dir, cmd) ==
    IF agent_key = "copilot"
    THEN Join(commands_dir, <<"speckit-", cmd, ".agent", ".md">>)
    ELSE Join(commands_dir, <<cmd>> \o Ext(_get_expected_extension(agent_key)))

\* the loop building missing_commands, over the commands cmds
RECURSIVE MissingFrom(_, _, _)
MissingFrom(agent_key, commands_dir, cmds) ==
    IF cmds = <<>> THEN <<>>
    ELSE (IF ~Exists(RequiredFile(agent_key, commands_dir, Head(cmds)))
          THEN <<<<Head(cmds)>>>> ELSE <<>>)
         \o MissingFrom(agent_key, commands_dir, Tail(cmds))

_check_required_commands(agent_key, paths, st) ==
    LET commands_dir == RequiredDir(paths) IN
    IF commands_dir = <<>> \/ ~Exists(commands_dir) THEN st
    ELSE LET missing_commands == MissingFrom(agent_key, commands_dir, required_commands)
         IN  WarnIf(st, missing_commands # <<>>,
                    Warning(agent_key, "commands", NOFILE,
                            "Missing expected spec-kit commands", missing_commands))

----------------------------------------------------------------------------
(* AgentValidator.__init__, validate_all and _validate_agent *)

\* __init__: the two empty lists
Construct == [issues |-> <<>>, warnings |-> <<>>]

\* no call of ensure_executable_scripts
NoScripts ==
    [os_name |-> "posix", user |-> "root", is_dir |-> FALSE, before |-> <<>>,
     files |-> <<>>, next |-> 0, updated |-> 0, failures |-> 0]

\* no `validate` command is running
NoCli == [status |-> "none", code |-> 0, said |-> ""]

NoResult == [returned |-> FALSE, success |-> FALSE, issues |-> <<>>, warnings |-> <<>>]

\* `return success, issues, warnings`
Return(success, iss, warns) ==
    [returned |-> TRUE, success |-> success, issues |-> iss, warnings |-> warns]

St == [issues |-> issues, warnings |-> warnings]

agent_key   == detected[idx].key
agent_paths == detected[idx].paths

\* ValidateAllNoAgents recording the detection finding as an issue
ValidateAllNoAgents_AsIssue ==
    /\ pc = "start"
    /\ _detect_agents = <<>>
    /\ detected' = <<>>
    /\ issues' = Append(issues,
           Issue("none", "detection", NOFILE,
                 "No AI agent configurations detected in project", <<>>))
    /\ result' = Return(Len(issues') = 0, issues', warnings)
    /\ pc' = "done"
    /\ UNCHANGED scripts
    /\ UNCHANGED <<cli, registry, fs, warnings, idx, runs, prev>>

\* validate_all when _detect_agents returns an empty dict
ValidateAllNoAgents ==
    /\ pc = "start"
    /\ ~DetectRaises
    /\ _detect_agents = <<>>
    /\ detected' = <<>>
    /\ warnings' = Append(warnings,
           Warning("none", "detection", NOFILE,
                   "No AI agent configurations detected in project", <<>>))
    /\ result' = Return(TRUE, <<>>, warnings')
    /\ pc' = "done"
    /\ UNCHANGED scripts
    /\ UNCHANGED <<cli, registry, fs, issues, idx, runs, prev>>

\* validate_all when _detect_agents raises: the error leaves validate_all,
\* nothing is returned
ValidateAllRaises ==
    /\ pc = "start"
    /\ DetectRaises
    /\ pc' = "raised"
    /\ UNCHANGED scripts
    /\ UNCHANGED <<cli, registry, fs, issues, warnings, detected, idx, result, runs, prev>>

\* validate_all entering its loop over the detected agents
ValidateAllDetected ==
    /\ pc = "start"
    /\ ~DetectRaises
    /\ _detect_agents # <<>>
    /\ detected' = _detect_agents
    /\ idx' = 1
    /\ pc' = "structure"
    /\ UNCHANGED scripts
    /\ UNCHANGED <<cli, registry, fs, issues, warnings, result, runs, prev>>

\* _validate_agent: self._check_directory_structure(agent_key, agent_name, paths)
CheckDirectoryStructure ==
    /\ pc = "structure"
    /\ LET st == _check_directory_structure(agent_key, agent_paths, St) IN
         /\ issues' = st.issues
         /\ warnings' = st.warnings
    /\ pc' = "commands"
    /\ UNCHANGED scripts
    /\ UNCHANGED <<cli, registry, fs, detected, idx, result, runs, prev>>

\* the `if "commands" in paths ... elif ... elif ...` of _validate_agent
CommandFilesOf(key, paths, st) ==
    IF "commands" \in DOMAIN paths
    THEN _check_command_files(key, paths["commands"], "command", st)
    ELSE IF "workflows" \in DOMAIN paths
    THEN _check_command_files(key, paths["workflows"], "workflow", st)
    ELSE IF "prompts" \in DOMAIN paths
    THEN _check_command_files(key, paths["prompts"], "prompt", st)
    ELSE st

CheckCommandFiles ==
    /\ pc = "commands"
    /\ LET st == CommandFilesOf(agent_key, agent_paths, St) IN
         /\ issues' = st.issues
         /\ warnings' = st.warnings
    /\ pc' = "context"
    /\ UNCHANGED scripts
    /\ UNCHANGED <<cli, registry, fs, detected, idx, result, runs, prev>>

\* ContextFileOf skipping a context file that already has a finding
ContextFileOf_Deduplicated(key, paths, st) ==
    IF "context_file" \in DOMAIN paths
          /\ (\A i \in 1..Len(st.issues) : st.issues[i].file # paths["context_file"])
          /\ (\A i \in 1..Len(st.warnings) : st.warnings[i].file # paths["context_file"])
    THEN _check_context_file(key, paths["context_file"], st)
    ELSE st

\* `if "context_file" in paths: self._check_context_file(...)`
ContextFileOf(key, paths, st) ==
    IF "context_file" \in DOMAIN paths
    THEN _check_context_file(key, paths["context_file"], st)
    ELSE st

CheckContextFile ==
    /\ pc = "context"
    /\ LET st == ContextFileOf(agent_key, agent_paths, St) IN
         /\ issues' = st.issues
         /\ warnings' = st.warnings
    /\ pc' = "required"
    /\ UNCHANGED scripts
    /\ UNCHANGED <<cli, registry, fs, detected, idx, result, runs, prev>>

\* the last call of _validate_agent, and the loop of validate_all moving on
CheckRequiredCommands ==
    /\ pc = "required"
    /\ LET st == _check_required_commands(agent_key, agent_paths, St) IN
         /\ issues' = st.issues
         /\ warnings' = st.warnings
    /\ IF idx < Len(detected)
       THEN idx' = idx + 1 /\ pc' = "structure"
       ELSE idx' = idx /\ pc' = "return"
    /\ UNCHANGED scripts
    /\ UNCHANGED <<cli, registry, fs, detected, result, runs, prev>>

\* ValidateAllReturn with success requiring that there is no warning either
ValidateAllReturn_CleanOnly ==
    /\ pc = "return"
    /\ result' = Return(Len(issues) = 0 /\ Len(warnings) = 0, issues, warnings)
    /\ pc' = "done"
    /\ UNCHANGED scripts
    /\ UNCHANGED <<cli, registry, fs, issues, warnings, detected, idx, runs, prev>>

\* `return len(self.issues) == 0, self.issues, self.warnings`
ValidateAllReturn ==
    /\ pc = "return"
    /\ result' = Return(Len(issues) = 0, issues, warnings)
    /\ pc' = "done"
    /\ UNCHANGED scripts
    /\ UNCHANGED <<cli, registry, fs, issues, warnings, detected, idx, runs, prev>>

\* validate_all called once more on the same AgentValidator over the same
\* snapshot: self.issues and self.warnings are as the earlier call left them
ValidateAllAgain ==
    /\ pc = "done"
    /\ runs < MaxRuns
    /\ runs' = runs + 1
    /\ prev' = result
    /\ detected' = <<>>
    /\ idx' = 0
    /\ result' = NoResult
    /\ pc' = "start"
    /\ UNCHANGED scripts
    /\ UNCHANGED <<cli, registry, fs, issues, warnings>>

\* ValidateAgentStandardsAgain without a new AgentValidator: the lists of the
\* earlier pass are kept
ValidateAgentStandardsAgain_Reuse ==
    /\ pc = "done"
    /\ runs < MaxRuns
    /\ runs' = runs + 1
    /\ prev' = result
    /\ detected' = <<>>
    /\ idx' = 0
    /\ result' = NoResult
    /\ pc' = "start"
    /\ UNCHANGED scripts
    /\ UNCHANGED <<cli, registry, fs, issues, warnings>>

\* validate_agent_standards called once more over the same snapshot: a new
\* AgentValidator, then validate_all
ValidateAgentStandardsAgain ==
    /\ pc = "done"
    /\ runs < MaxRuns
    /\ runs' = runs + 1
    /\ prev' = result
    /\ issues' = Construct.issues
    /\ warnings' = Construct.warnings
    /\ detected' = <<>>
    /\ idx' = 0
    /\ result' = NoResult
    /\ pc' = "start"
    /\ UNCHANGED scripts
    /\ UNCHANGED <<cli, registry, fs>>

----------------------------------------------------------------------------
(* The `validate` command of the CLI *)

\* the command has printed said and ended with the exit status code
Exited(code, said) == [status |-> "exited", code |-> code, said |-> said]

\* `if not project_path.exists(): ... raise typer.Exit(1)`
ValidateNotFound ==
    /\ pc = "cli"
    /\ ~Exists(project_root)
    /\ cli' = Exited(1, "Project directory not found")
    /\ pc' = "exited"
    /\ UNCHANGED scripts
    /\ UNCHANGED <<registry, fs, issues, warnings, detected, idx, result, runs, prev>>

\* `if not project_path.is_dir(): ... raise typer.Exit(1)`
ValidateNotADirectory ==
    /\ pc = "cli"
    /\ Exists(project_root)
    /\ ~IsDir(project_root)
    /\ cli' = Exited(1, "Not a directory")
    /\ pc' = "exited"
    /\ UNCHANGED scripts
    /\ UNCHANGED <<registry, fs, issues, warnings, detected, idx, result, runs, prev>>

\* the call validate_agent_standards(project_path, AGENT_CONFIG): a new
\* AgentValidator, then validate_all
ValidateCall ==
    /\ pc = "cli"
    /\ IsDir(project_root)
    /\ issues' = Construct.issues
    /\ warnings' = Construct.warnings
    /\ cli' = [cli EXCEPT !.said = "Validating AI agent configurations in"]
    /\ pc' = "start"
    /\ UNCHANGED scripts
    /\ UNCHANGED <<registry, fs, detected, idx, result, runs, prev>>

\* ValidateReport ending with exit status 1 when there are warnings too
ValidateReport_WarningsFail ==
    /\ pc = "done"
    /\ cli.status = "running"
    /\ cli' = IF result.issues = <<>> /\ result.warnings = <<>>
              THEN Exited(0, "All agent configurations are valid")
              ELSE IF result.issues # <<>>
              THEN Exited(1, "Validation failed with errors")
              ELSE Exited(1, "Validation passed with warnings")
    /\ pc' = "exited"
    /\ UNCHANGED scripts
    /\ UNCHANGED <<registry, fs, issues, warnings, detected, idx, result, runs, prev>>

\* the display of the results and the final status
ValidateReport ==
    /\ pc = "done"
    /\ cli.status = "running"
    /\ cli' = IF result.issues = <<>> /\ result.warnings = <<>>
              THEN Exited(0, "All agent configurations are valid")
              ELSE IF result.issues # <<>>
              THEN Exited(1, "Validation failed with errors")
              ELSE Exited(0, "Validation passed with warnings")
    /\ pc' = "exited"
    /\ UNCHANGED scripts
    /\ UNCHANGED <<registry, fs, issues, warnings, detected, idx, result, runs, prev>>

----------------------------------------------------------------------------
(* ensure_executable_scripts *)

\* the permission bits of st_mode the function reads and writes (the bits
\* above 0o777 are carried through `|=` untouched and are left out)
S_IRUSR == 256      \* 0o400
S_IXUSR == 64       \* 0o100
S_IRGRP == 32       \* 0o040
S_IXGRP == 8        \* 0o010
S_IROTH == 4        \* 0o004
S_IXOTH == 1        \* 0o001

\* mode & bit, for a single bit
Has(mode, bit) == (mode \div bit) % 2 = 1

\* mode | bit, for a single bit
Or(mode, bit) == IF Has(mode, bit) THEN mode ELSE mode + bit

\* mode & 0o111
AnyExecute(mode) == Has(mode, S_IXUSR) \/ Has(mode, S_IXGRP) \/ Has(mode, S_IXOTH)

\* script.open("rb") succeeds: the read permission the kernel grants user
CanOpen(user, mode) ==
    CASE user = "root"  -> TRUE
      [] user = "owner" -> Has(mode, S_IRUSR)
      [] OTHER          -> Has(mode, S_IROTH)

\* os.chmod succeeds: only the owner of a file and root may change its mode
CanChmod(user) == user \in {"root", "owner"}

\* new_mode adding the owner execute bit only
NewMode_OwnerOnly(mode) == Or(mode, S_IXUSR)

\* new_mode of a mode without execute bits
NewMode(mode) ==
    LET m1 == IF Has(mode, S_IRUSR) THEN Or(mode, S_IXUSR) ELSE mode
        m2 == IF Has(mode, S_IRGRP) THEN Or(m1, S_IXGRP) ELSE m1
        m3 == IF Has(mode, S_IROTH) THEN Or(m2, S_IXOTH) ELSE m2
    IN  IF ~Has(m3, S_IXUSR) THEN Or(m3, S_IXUSR) ELSE m3

\* the body of the loop for one script: the script after it, and what it adds
\* to updated and to failures
VisitScript(user, script) ==
    LET skip == [script |-> script, updated |-> 0, failures |-> 0]
    IN  IF script.kind # "file" THEN skip
        ELSE IF ~CanOpen(user, script.mode) THEN skip
        ELSE IF script.head # "#!" THEN skip
        ELSE IF AnyExecute(script.mode) THEN skip
        ELSE IF ~CanChmod(user)
        THEN [script |-> script, updated |-> 0, failures |-> 1]
        ELSE [script |-> [script EXCEPT !.mode = NewMode(script.mode)],
              updated |-> 1, failures |-> 0]

\* `if os.name == "nt": return` and `if not scripts_root.is_dir(): return`
EnsureNothingToDo ==
    /\ pc = "ensure"
    /\ scripts.os_name = "nt" \/ ~scripts.is_dir
    /\ pc' = "ensured"
    /\ UNCHANGED scripts
    /\ UNCHANGED <<cli, registry, fs, issues, warnings, detected, idx, result, runs, prev>>

\* the function entering its loop over scripts_root.rglob("*.sh")
EnsureEnter ==
    /\ pc = "ensure"
    /\ scripts.os_name # "nt"
    /\ scripts.is_dir
    /\ scripts' = [scripts EXCEPT !.next = 1, !.updated = 0, !.failures = 0]
    /\ pc' = "scripts"
    /\ UNCHANGED <<cli, registry, fs, issues, warnings, detected, idx, result, runs, prev>>

\* one iteration of the loop
EnsureScript ==
    /\ pc = "scripts"
    /\ scripts.next <= Len(scripts.files)
    /\ LET v == VisitScript(scripts.user, scripts.files[scripts.next])
       IN  scripts' = [scripts EXCEPT !.files[scripts.next] = v.script,
                                      !.updated = @ + v.updated,
                                      !.failures = @ + v.failures,
                                      !.next = @ + 1]
    /\ UNCHANGED <<cli, registry, fs, issues, warnings, detected, idx, pc, result, runs, prev>>

\* the end of the loop: the report to the tracker or the console
EnsureReport ==
    /\ pc = "scripts"
    /\ scripts.next > Len(scripts.files)
    /\ pc' = "ensured"
    /\ UNCHANGED scripts
    /\ UNCHANGED <<cli, registry, fs, issues, warnings, detected, idx, result, runs, prev>>

----------------------------------------------------------------------------
(* AgentValidator.get_summary *)

\* the loop of _group_by_agent: grouped[agent] = grouped.get(agent, 0) + 1
RECURSIVE GroupInto(_, _)
GroupInto(items, grouped) ==
    IF items = <<>> THEN grouped
    ELSE LET agent == Head(items).agent IN
         GroupInto(Tail(items),
             [a \in DOMAIN grouped \cup {agent} |->
                 IF a = agent
                 THEN (IF a \in DOMAIN grouped THEN grouped[a] ELSE 0) + 1
                 ELSE grouped[a]])

\* _group_by_agent recording the presence of an agent, not its count
_group_by_agent_Presence(items) ==
    [a \in {items[i].agent : i \in 1..Len(items)} |-> 1]

_group_by_agent(items) == GroupInto(items, [a \in {} |-> 0])

get_summary ==
    [total_issues      |-> Len(issues),
     total_warnings    |-> Len(warnings),
     errors_by_agent   |-> _group_by_agent(issues),
     warnings_by_agent |-> _group_by_agent(warnings)]

----------------------------------------------------------------------------
(* The inputs: registries and filesystem snapshots *)

\* AGENT_CONFIG[key]["folder"] as a path component; "all" is the meta entry
\* with folder None, "meta" a meta entry that has no "folder" key
Folder(key) ==
    CASE key = "copilot"      -> <<".github">>
      [] key = "claude"       -> <<".claude">>
      [] key = "gemini"       -> <<".gemini">>
      [] key = "cursor-agent" -> <<".cursor">>
      [] key = "qwen"         -> <<".qwen">>
      [] key = "opencode"     -> <<".opencode">>
      [] key = "codex"        -> <<".codex">>
      [] key = "windsurf"     -> <<".windsurf">>
      [] key = "kilocode"     -> <<".kilocode">>
      [] key = "auggie"       -> <<".augment">>
      [] key = "codebuddy"    -> <<".codebuddy">>
      [] key = "qoder"        -> <<".qoder">>
      [] key = "roo"          -> <<".roo">>
      [] key = "q"            -> <<".amazonq">>
      [] key = "amp"          -> <<".agents">>
      [] key = "shai"         -> <<".shai">>
      [] key = "bob"          -> <<".bob">>
      [] key = "jules"        -> <<".jules">>
      [] key = "all"          -> NULL
      [] key = "meta"         -> NOKEY

Profile(key) == [key |-> key, folder |-> Folder(key)]

Profiles(keys) == [i \in 1..Len(keys) |-> Profile(keys[i])]

\* the registries the passes run over: every key of AGENT_CONFIG in some
\* registry, one registry with the meta entry and one with a key the
\* validator has no branch for
Registries ==
    { Profiles(<<"all", "claude", "gemini">>),
      Profiles(<<"copilot", "windsurf">>),
      Profiles(<<"cursor-agent", "opencode">>),
      Profiles(<<"q", "amp">>),
      Profiles(<<"roo", "codex", "jules">>),
      Profiles(<<"kilocode", "auggie">>),
      Profiles(<<"bob", "qwen">>),
      Profiles(<<"codebuddy", "shai">>),
      Profiles(<<"qoder">>) }

\* registries of the declared shape: the base folder is a string, None or
\* absent
ShapedRegistries ==
    { Profiles(<<"all", "claude", "gemini">>),
      Profiles(<<"claude", "meta">>),
      Profiles(<<"meta", "gemini">>) }

\* the directories a snapshot may hold inside the base directory of an agent
SubDirNames(key) ==
    CASE key \in {"claude", "gemini", "qwen", "codebuddy", "qoder", "shai",
                  "amp", "bob", "jules"}      -> {"commands"}
      [] key = "copilot"                      -> {"agents", "prompts"}
      [] key \in {"cursor-agent", "auggie"}   -> {"rules", "commands"}
      [] key = "opencode"                     -> {"command", "commands"}
      [] key \in {"codex", "q"}               -> {"prompts"}
      [] key \in {"windsurf", "kilocode"}     -> {"rules", "workflows"}
      [] key = "roo"                          -> {"rules"}
      [] OTHER                                -> {}

\* the files a snapshot may hold in the directory named n of an agent
FileNames(key, n) ==
    CASE n = "rules" ->
           {IF key = "cursor-agent" THEN <<"specify-rules", ".mdc">>
                                    ELSE <<"specify-rules", ".md">>}
      [] n = "agents" ->
           {<<"copilot-instructions", ".md">>, <<"speckit-", "specify", ".agent", ".md">>}
      [] key = "copilot" ->
           {<<"speckit-", "specify", ".agent", ".md">>, <<"specify", ".md">>}
      [] key \in {"gemini", "qwen"} ->
           {<<"specify", ".toml">>, <<"plan", ".toml">>, <<"specify", ".md">>}
      [] key = "opencode" /\ n = "commands" -> {}
      [] OTHER ->
           {<<"specify", ".md">>, <<"plan", ".md">>}

\* the files a snapshot may hold in the project root
RootFileNames(key) ==
    CASE key = "claude"              -> {<<"CLAUDE", ".md">>}
      [] key = "gemini"              -> {<<"GEMINI", ".md">>}
      [] key = "qwen"                -> {<<"QWEN", ".md">>}
      [] key = "codebuddy"           -> {<<"CODEBUDDY", ".md">>}
      [] key = "qoder"               -> {<<"QODER", ".md">>}
      [] key = "shai"                -> {<<"SHAI", ".md">>}
      [] key \in {"q", "amp", "bob"} -> {<<"AGENTS", ".md">>}
      [] OTHER                       -> {}

\* the texts a file of a snapshot may hold
GoodMarkdown ==
    <<"---", "\n", "description:", "x", "\n", "mode:", "x", "\n", "---", "\n",
      "Scripts/", " ", "$ARGUMENTS", "\n", "Technologies">>

GoodToml ==
    <<"description", " ", "=", "x", "\n", "prompt", "=", "{{args}}", "\n",
      "<!-- MANUAL ADDITIONS START -->", "[PROJECT NAME]", "[DATE]">>

Nodes == {FileNode(GoodMarkdown), FileNode(GoodToml), Unreadable}

Entries(reg) ==
    {reg[i] : i \in {j \in 1..Len(reg) : reg[j].folder \notin {NULL, NOKEY}}}

BaseDirs(reg) == {<<e.folder>> : e \in Entries(reg)}

SubDirs(reg) ==
    UNION {{<<e.folder, <<n>>>> : n \in SubDirNames(e.key)} : e \in Entries(reg)}

\* the sets of directories closed under parent
DirSets(reg) ==
    {D \in SUBSET (BaseDirs(reg) \cup SubDirs(reg)) :
        \A d \in D : Len(d) = 2 => <<d[1]>> \in D}

\* the files that may exist given the directories D
FilesUnder(reg, D) ==
    UNION {{<<f>> : f \in RootFileNames(e.key)} : e \in Entries(reg)}
    \cup UNION {UNION {{<<e.folder, <<n>>, f>> : f \in FileNames(e.key, n)}
                          : n \in {m \in SubDirNames(e.key) : <<e.folder, <<m>>>> \in D}}
                   : e \in Entries(reg)}

Parent(p) == Slice(p, 1, Len(p) - 1)

\* the names of the files of F that lie in directory d
NamesIn(F, d) == {p[Len(p)] : p \in {q \in F : Parent(q) = d}}

\* the orders in which a directory holding the names S can be listed
Listings(S) ==
    {s \in [1..Cardinality(S) -> S] : \A i, j \in 1..Cardinality(S) : i # j => s[i] # s[j]}

\* one listing order for each directory of dirs
RECURSIVE ListingsOf(_, _)
ListingsOf(dirs, F) ==
    IF dirs = {} THEN {<<>>}
    ELSE LET d == CHOOSE x \in dirs : TRUE IN
         {(d :> s) @@ rest : s \in Listings(NamesIn(F, d)),
                             rest \in ListingsOf(dirs \ {d}, F)}

\* the snapshot with the directories D and the files F, holding the nodes of
\* content, each directory listed in the order ls gives it
MakeFs(D, F, content, ls) ==
    [nodes |-> [p \in D \cup {project_root} \cup F |->
                    IF p \in F THEN content[p] ELSE DirNode],
     ls    |-> ls]

Snapshots(reg) ==
    UNION {UNION {{MakeFs(D, F, content, ls) :
                       content \in [F -> Nodes],
                       ls \in ListingsOf(D \cup {project_root}, F)}
                     : F \in {G \in SUBSET FilesUnder(reg, D) : Cardinality(G) <= MaxFiles}}
              : D \in DirSets(reg)}

----------------------------------------------------------------------------
(* One validation pass over a snapshot *)

Init ==
    /\ registry \in Registries
    /\ fs \in Snapshots(registry)
    /\ issues = Construct.issues
    /\ warnings = Construct.warnings
    /\ detected = <<>>
    /\ idx = 0
    /\ pc = "start"
    /\ result = NoResult
    /\ runs = 1
    /\ prev = NoResult
    /\ cli = NoCli
    /\ scripts = NoScripts

Next ==
    \/ ValidateAllNoAgents
    \/ ValidateAllDetected
    \/ CheckDirectoryStructure
    \/ CheckCommandFiles
    \/ CheckContextFile
    \/ CheckRequiredCommands
    \/ ValidateAllReturn

Spec == Init /\ [][Next]_vars

\* two passes of validate_agent_standards over one unmodified snapshot
NextFresh == Next \/ ValidateAgentStandardsAgain

SpecFresh == Init /\ [][NextFresh]_vars

\* two calls of validate_all on one AgentValidator over one unmodified
\* snapshot
ReuseNext == Next \/ ValidateAllAgain

SpecReuse == Init /\ [][ReuseNext]_vars

\* a project path that does not exist, and one that is a file
NoProject   == [nodes |-> [p \in {} |-> DirNode], ls |-> [d \in {} |-> <<>>]]
FileProject ==
    [nodes |-> [p \in {project_root} |-> FileNode(<<"x">>)], ls |-> [d \in {} |-> <<>>]]

\* the `validate` command about to look at its project path
CliInit ==
    /\ registry \in Registries
    /\ fs \in Snapshots(registry) \cup {NoProject, FileProject}
    /\ issues = <<>>
    /\ warnings = <<>>
    /\ detected = <<>>
    /\ idx = 0
    /\ pc = "cli"
    /\ result = NoResult
    /\ runs = 1
    /\ prev = NoResult
    /\ cli = [status |-> "running", code |-> 0, said |-> ""]
    /\ scripts = NoScripts

CliNext ==
    \/ ValidateNotFound
    \/ ValidateNotADirectory
    \/ ValidateCall
    \/ Next
    \/ ValidateReport

SpecCli == CliInit /\ [][CliNext]_vars

\* the `*.sh` entries rglob yields: a regular file of any permission bits
\* and one of three beginnings, a symlink, a directory
Heads == {"#!", "#", "ec"}

ScriptInputs ==
    {[kind |-> "file", head |-> h, mode |-> m] : h \in Heads, m \in 0..511}
        \cup {[kind |-> "symlink", head |-> "#!", mode |-> 420],
              [kind |-> "dir", head |-> "", mode |-> 493]}

\* the entries rglob yields after the first
Companions ==
    {<<>>,
     <<[kind |-> "file", head |-> "#!", mode |-> 420]>>,
     <<[kind |-> "file", head |-> "#!", mode |-> 128]>>,
     <<[kind |-> "file", head |-> "ec", mode |-> 384]>>}

\* the trees under scripts_root: one entry of any kind and mode, then a
\* companion; no tree when scripts_root is not a directory
ScriptTrees == {<<first>> \o rest : first \in ScriptInputs, rest \in Companions}

\* a call of ensure_executable_scripts on a project
ExecInit ==
    /\ registry = <<>>
    /\ fs = [nodes |-> [p \in {project_root} |-> DirNode],
             ls |-> [d \in {project_root} |-> <<>>]]
    /\ issues = <<>>
    /\ warnings = <<>>
    /\ detected = <<>>
    /\ idx = 0
    /\ pc = "ensure"
    /\ result = NoResult
    /\ runs = 0
    /\ prev = NoResult
    /\ cli = NoCli
    /\ \E os \in {"posix", "nt"}, user \in {"root", "owner", "other"}, dir \in BOOLEAN :
         \E tree \in (IF dir THEN ScriptTrees ELSE {<<>>}) :
            scripts = [os_name |-> os, user |-> user, is_dir |-> dir, before |-> tree,
                       files |-> tree, next |-> 0, updated |-> 0, failures |-> 0]

ExecNext ==
    \/ EnsureNothingToDo
    \/ EnsureEnter
    \/ EnsureScript
    \/ EnsureReport

SpecExec == ExecInit /\ [][ExecNext]_vars

\* one pass over a registry of the declared shape
ShapeInit ==
    /\ registry \in ShapedRegistries
    /\ fs \in Snapshots(registry)
    /\ issues = Construct.issues
    /\ warnings = Construct.warnings
    /\ detected = <<>>
    /\ idx = 0
    /\ pc = "start"
    /\ result = NoResult
    /\ runs = 1
    /\ prev = NoResult
    /\ cli = NoCli
    /\ scripts = NoScripts

ShapeNext == Next \/ ValidateAllRaises

SpecShape == ShapeInit /\ [][ShapeNext]_vars

----------------------------------------------------------------------------
(* One pass over an artifact directory holding any of the required commands *)

\* the agents of the pass: one per naming of the command files and one whose
\* artifact directory is not a commands directory
RequiredInputs == {"claude", "gemini", "copilot", "windsurf"}

\* the name of the file of command cmd: the one the agent uses when own,
\* the one of another agent otherwise
CommandFileName(key, cmd, own) ==
    IF own
    THEN CASE key = "copilot" -> <<"speckit-", cmd, ".agent", ".md">>
           [] key = "gemini"  -> <<cmd, ".toml">>
           [] OTHER           -> <<cmd, ".md">>
    ELSE CASE key = "copilot" -> <<cmd, ".agent", ".md">>
           [] key = "gemini"  -> <<cmd, ".md">>
           [] OTHER           -> <<cmd, ".toml">>

\* the artifact directory of the agent
ArtifactRoot(key) ==
    CASE key \in {"copilot", "codex", "q"}   -> <<Folder(key), <<"prompts">>>>
      [] key \in {"windsurf", "kilocode"}    -> <<Folder(key), <<"workflows">>>>
      [] key = "opencode"                    -> <<Folder(key), <<"command">>>>
      [] OTHER                               -> <<Folder(key), <<"commands">>>>

\* the snapshot whose artifact directory holds the files of the commands cmds
RequiredSnapshot(key, cmds, own) ==
    LET dir     == ArtifactRoot(key)
        present == SelectSeq(required_commands, LAMBDA c : c \in cmds)
        names   == [i \in 1..Len(present) |-> CommandFileName(key, present[i], own)]
        F       == {Join(dir, names[i]) : i \in 1..Len(names)}
        D       == {<<Folder(key)>>, dir}
                   \cup (CASE key = "copilot"  -> {<<Folder(key), <<"agents">>>>}
                           [] key = "windsurf" -> {<<Folder(key), <<"rules">>>>}
                           [] OTHER            -> {})
    IN  MakeFs(D, F,
               [p \in F |-> FileNode(IF key = "gemini" THEN GoodToml ELSE GoodMarkdown)],
               [d \in D \cup {project_root} |-> IF d = dir THEN names ELSE <<>>])

RequiredInit ==
    /\ \E key \in RequiredInputs : \E cmds \in SUBSET Range(required_commands) :
       \E own \in BOOLEAN :
           /\ registry = Profiles(<<key>>)
           /\ fs = RequiredSnapshot(key, cmds, own)
    /\ issues = Construct.issues
    /\ warnings = Construct.warnings
    /\ detected = <<>>
    /\ idx = 0
    /\ pc = "start"
    /\ result = NoResult
    /\ runs = 1
    /\ prev = NoResult
    /\ cli = NoCli
    /\ scripts = NoScripts

\* validate_all over a registry whose agent is detected
RequiredNext ==
    \/ ValidateAllDetected
    \/ CheckDirectoryStructure
    \/ CheckCommandFiles
    \/ CheckContextFile
    \/ CheckRequiredCommands
    \/ ValidateAllReturn

SpecRequired == RequiredInit /\ [][RequiredNext]_vars

----------------------------------------------------------------------------
(* One pass over two agents whose artifact directories hold the same files *)

\* pairs of agents with an artifact directory, every such key in some pair
DispatchRegistries ==
    { Profiles(<<"claude", "gemini">>),     Profiles(<<"copilot", "qwen">>),
      Profiles(<<"cursor-agent", "copilot">>), Profiles(<<"opencode", "codex">>),
      Profiles(<<"windsurf", "kilocode">>), Profiles(<<"auggie", "codebuddy">>),
      Profiles(<<"qoder", "q">>),           Profiles(<<"amp", "shai">>),
      Profiles(<<"bob", "gemini">>) }

\* a text that holds the frontmatter of a markdown command and the fields of
\* a TOML command
GoodBoth ==
    <<"---", "\n", "description:", "x", "\n", "description", " ", "=", "x", "\n",
      "prompt", "=", "{{args}}", "\n", "---", "\n", "{SCRIPT}", "$ARGUMENTS">>

DispatchTexts == {GoodMarkdown, GoodToml, GoodBoth, <<"x">>}

\* the files of every artifact directory, in the order it is listed
DispatchNames ==
    <<<<"specify", ".md">>, <<"specify", ".toml">>,
      <<"speckit-", "specify", ".agent", ".md">>>>

\* the snapshot in which the artifact directory of every agent of reg holds
\* the files of DispatchNames, each with the text
DispatchSnapshot(reg, text) ==
    LET roots == {ArtifactRoot(reg[i].key) : i \in 1..Len(reg)}
        D     == roots \cup {Parent(r) : r \in roots}
        F     == {Join(r, DispatchNames[i]) : r \in roots, i \in 1..Len(DispatchNames)}
    IN  MakeFs(D, F, [p \in F |-> FileNode(text)],
               [d \in D \cup {project_root} |->
                    IF d \in roots THEN DispatchNames ELSE <<>>])

DispatchInit ==
    /\ \E reg \in DispatchRegistries : \E text \in DispatchTexts :
           /\ registry = reg
           /\ fs = DispatchSnapshot(reg, text)
    /\ issues = Construct.issues
    /\ warnings = Construct.warnings
    /\ detected = <<>>
    /\ idx = 0
    /\ pc = "start"
    /\ result = NoResult
    /\ runs = 1
    /\ prev = NoResult
    /\ cli = NoCli
    /\ scripts = NoScripts

SpecDispatch == DispatchInit /\ [][RequiredNext]_vars

----------------------------------------------------------------------------
(* One pass over an agent that has a context file of arbitrary text *)

\* the tokens the text of the context file is drawn from
ContextInputs ==
    { {"<!-- MANUAL ADDITIONS START -->", "<!-- MANUAL ADDITIONS END -->",
       "[PROJECT NAME]", "[DATE]", "Technologies"},
      {"<!-- MANUAL ADDITIONS START -->", "Active Technologies", "technologies",
       "[date]", "x"} }

\* the context file of claude
ContextFile == <<<<"CLAUDE", ".md">>>>

\* the snapshot holding the base directory of claude, its commands
\* directory with the eight commands and the context file with the text
ContextSnapshot(text) ==
    LET base == RequiredSnapshot("claude", Range(required_commands), TRUE) IN
    [nodes |-> [p \in DOMAIN base.nodes \cup {ContextFile} |->
                    IF p = ContextFile THEN FileNode(text) ELSE base.nodes[p]],
     ls    |-> [d \in DOMAIN base.ls |->
                    IF d = project_root THEN <<ContextFile[1]>> ELSE base.ls[d]]]

ContextInit ==
    /\ \E tokens \in ContextInputs : \E text \in SeqUpTo(tokens, MaxLen) :
           /\ registry = Profiles(<<"claude">>)
           /\ fs = ContextSnapshot(text)
    /\ issues = Construct.issues
    /\ warnings = Construct.warnings
    /\ detected = <<>>
    /\ idx = 0
    /\ pc = "start"
    /\ result = NoResult
    /\ runs = 1
    /\ prev = NoResult
    /\ cli = NoCli
    /\ scripts = NoScripts

SpecContext == ContextInit /\ [][RequiredNext]_vars

----------------------------------------------------------------------------
(* The command-file check on one file of arbitrary text *)

\* the agents of the three formats, each with the tokens its file is drawn from
FormatInputs ==
    { [key |-> "claude",  tokens |-> {"---", "\n", " ", "description:", "Scripts/"}],
      [key |-> "claude",  tokens |-> {"---", "description:", "{SCRIPT}", "$ARGUMENTS", "x"}],
      [key |-> "claude",  tokens |-> {"---", "description:", "scripts/", "{ARGS}", "{{args}}"}],
      [key |-> "copilot", tokens |-> {"---", "\n", " ", "description:", "mode:"}],
      [key |-> "gemini",  tokens |-> {"description", "prompt", "=", "\n", " "}],
      [key |-> "gemini",  tokens |-> {"description", "prompt", "=", "$ARGUMENTS", "{{args}}"}] }

\* the file of the snapshot of FormatInit
FormatFile(key) ==
    CASE key = "copilot" ->
           <<Folder(key), <<"prompts">>, <<"speckit-", "specify", ".agent", ".md">>>>
      [] key = "gemini" -> <<Folder(key), <<"commands">>, <<"specify", ".toml">>>>
      [] OTHER          -> <<Folder(key), <<"commands">>, <<"specify", ".md">>>>

\* the snapshot holding the artifact directories of the agent and one file
FormatSnapshot(key, text) ==
    LET file == FormatFile(key)
        D    == {<<Folder(key)>>, Parent(file)}
                \cup (IF key = "copilot" THEN {<<Folder(key), <<"agents">>>>} ELSE {})
    IN  MakeFs(D, {file}, [p \in {file} |-> FileNode(text)],
               [d \in D \cup {project_root} |->
                    IF d = Parent(file) THEN <<file[Len(file)]>> ELSE <<>>])

\* validate_all about to check the command files of the only agent, detected
\* in a snapshot whose structure check recorded nothing
FormatInit ==
    /\ \E input \in FormatInputs : \E text \in SeqUpTo(input.tokens, MaxLen) :
           /\ registry = Profiles(<<input.key>>)
           /\ fs = FormatSnapshot(input.key, text)
    /\ issues = Construct.issues
    /\ warnings = Construct.warnings
    /\ detected = _detect_agents
    /\ idx = 1
    /\ pc = "commands"
    /\ result = NoResult
    /\ runs = 1
    /\ prev = NoResult
    /\ cli = NoCli
    /\ scripts = NoScripts

FormatNext == CheckCommandFiles

SpecFormat == FormatInit /\ [][FormatNext]_vars

----------------------------------------------------------------------------
(* Vocabulary of the properties *)

Returned == result.returned

\* the indices of the findings of list that satisfy agent = a
OfAgent(list, a) == {i \in 1..Len(list) : list[i].agent = a}

\* the indices of the findings of list that name file f for agent a
OfFile(list, a, f) == {i \in 1..Len(list) : list[i].agent = a /\ list[i].file = f}

DetectedKeys == {detected[j].key : j \in 1..Len(detected)}

\* the AgentConvention table: the roles other than `dir` an agent declares,
\* each with the path it resolves to (base is the agent's base directory)
Convention(key, base) ==
    LET root(n)     == <<n>>
        inside(n)   == Join(base, <<n>>)
        in_dir(n, f) == Join(Join(base, <<n>>), f)
    IN
    CASE key \in {"claude", "gemini", "qwen", "codebuddy", "qoder", "shai"} ->
           {<<"commands", inside("commands")>>,
            <<"context_file",
              root(CASE key = "claude"    -> <<"CLAUDE", ".md">>
                     [] key = "gemini"    -> <<"GEMINI", ".md">>
                     [] key = "qwen"      -> <<"QWEN", ".md">>
                     [] key = "codebuddy" -> <<"CODEBUDDY", ".md">>
                     [] key = "qoder"     -> <<"QODER", ".md">>
                     [] key = "shai"      -> <<"SHAI", ".md">>)>>}
      [] key = "copilot" ->
           {<<"agents", inside("agents")>>, <<"prompts", inside("prompts")>>,
            <<"context_file", in_dir("agents", <<"copilot-instructions", ".md">>)>>}
      [] key = "cursor-agent" ->
           {<<"rules", inside("rules")>>, <<"commands", inside("commands")>>,
            <<"context_file", in_dir("rules", <<"specify-rules", ".mdc">>)>>}
      [] key = "opencode" -> {<<"commands", inside("command")>>}
      [] key = "codex"    -> {<<"prompts", inside("prompts")>>}
      [] key \in {"windsurf", "kilocode"} ->
           {<<"rules", inside("rules")>>, <<"workflows", inside("workflows")>>,
            <<"context_file", in_dir("rules", <<"specify-rules", ".md">>)>>}
      [] key = "auggie" ->
           {<<"rules", inside("rules")>>, <<"commands", inside("commands")>>,
            <<"context_file", in_dir("rules", <<"specify-rules", ".md">>)>>}
      [] key = "roo" ->
           {<<"rules", inside("rules")>>,
            <<"context_file", in_dir("rules", <<"specify-rules", ".md">>)>>}
      [] key = "q" ->
           {<<"prompts", inside("prompts")>>,
            <<"context_file", root(<<"AGENTS", ".md">>)>>}
      [] key \in {"amp", "bob"} ->
           {<<"commands", inside("commands")>>,
            <<"context_file", root(<<"AGENTS", ".md">>)>>}
      [] OTHER -> {}

\* the roles other than `dir` that resolve to an existing path
Resolved(key, base) == {c \in Convention(key, base) : Exists(c[2])}

----------------------------------------------------------------------------
(* C1: the success flag validate_all returns is true if and only if the    *)
(* issues list it returns is empty, whatever the number of warnings.       *)

C1_SuccessIffNoIssues ==
    Returned => (result.success <=> Len(result.issues) = 0)

\* a pass that returned success with no issue and at least 5 warnings
C1_Witness ==
    Returned /\ result.success /\ result.issues = <<>> /\ Len(result.warnings) >= 5

----------------------------------------------------------------------------
(* C2: when the Detector finds no agent, validate_all returns success =    *)
(* true, no issue and exactly one warning (agent "none", category          *)
(* "detection"), and no other check has recorded anything.                 *)

C2_NoAgentsOneWarning ==
    (Returned /\ _detect_agents = <<>>) =>
        /\ result.success
        /\ result.issues = <<>>
        /\ Len(result.warnings) = 1
        /\ result.warnings[1].agent = "none"
        /\ result.warnings[1].category = "detection"
        /\ issues = <<>>
        /\ warnings = result.warnings

\* no agent detected although a base directory of the registry exists
C2_Witness ==
    /\ Returned
    /\ _detect_agents = <<>>
    /\ \E i \in 1..Len(registry) :
           registry[i].folder # NULL /\ Exists(<<registry[i].folder>>)

----------------------------------------------------------------------------
(* C3: a registry entry is detected if and only if its base folder is      *)
(* non-null, its base directory exists and at least one role other than    *)
(* `dir` resolves to an existing path; the detected paths are `dir` and    *)
(* exactly the resolved roles.                                             *)

C3_DetectedIffRoleResolves ==
    pc # "start" =>
        \A i \in 1..Len(registry) :
            LET e    == registry[i]
                base == <<e.folder>>
            IN  /\ e.key \in DetectedKeys <=>
                       /\ e.folder # NULL
                       /\ Exists(base)
                       /\ Resolved(e.key, base) # {}
                /\ \A j \in 1..Len(detected) :
                       detected[j].key = e.key =>
                           /\ detected[j].paths["dir"] = base
                           /\ \A c \in Convention(e.key, base) :
                                  c \in Resolved(e.key, base)
                                      <=> /\ c[1] \in DOMAIN detected[j].paths
                                          /\ detected[j].paths[c[1]] = c[2]

\* a pass with a meta entry, a detected agent and an agent whose base
\* directory exists without any role resolving
C3_Witness ==
    /\ pc = "done"
    /\ \E i \in 1..Len(registry) : registry[i].folder = NULL
    /\ DetectedKeys # {}
    /\ \E i \in 1..Len(registry) :
           /\ registry[i].folder # NULL
           /\ Exists(<<registry[i].folder>>)
           /\ registry[i].key \notin DetectedKeys

----------------------------------------------------------------------------
(* C4 as stated: an agent whose base directory exists but holds no         *)
(* commands/command, workflows, prompts, rules or agents entry is not      *)
(* detected and no finding carries its key, whatever else the project root *)
(* holds.                                                                  *)

SubArtifacts == {"commands", "command", "workflows", "prompts", "rules", "agents"}

\* the base directory exists and holds no recognized sub-artifact
BareBase(e) ==
    /\ e.folder # NULL
    /\ Exists(<<e.folder>>)
    /\ \A n \in SubArtifacts : ~Exists(<<e.folder, <<n>>>>)

NoFindingFor(key) == OfAgent(issues, key) = {} /\ OfAgent(warnings, key) = {}

C4_BareBaseNeverDetected ==
    Returned =>
        \A i \in 1..Len(registry) :
            BareBase(registry[i]) =>
                registry[i].key \notin DetectedKeys /\ NoFindingFor(registry[i].key)

(* C4 amended: an agent whose base directory exists but holds no           *)
(* recognized sub-artifact, and whose context file in the project root     *)
(* does not exist either, is not detected and no finding carries its key.  *)

C4_BareBaseWithoutContextFile ==
    Returned =>
        \A i \in 1..Len(registry) :
            (BareBase(registry[i])
                /\ \A c \in Convention(registry[i].key, <<registry[i].folder>>) :
                       c[1] = "context_file" => ~Exists(c[2]))
            => registry[i].key \notin DetectedKeys /\ NoFindingFor(registry[i].key)

\* a bare base directory without its context file, next to a detected agent
\* with findings
C4_Witness ==
    /\ Returned
    /\ Len(issues) + Len(warnings) >= 2
    /\ \E i \in 1..Len(registry) :
           /\ BareBase(registry[i])
           /\ registry[i].key \notin DetectedKeys
           /\ Convention(registry[i].key, <<registry[i].folder>>) # {}

----------------------------------------------------------------------------
(* C5: two calls of validate_agent_standards over the same unmodified      *)
(* snapshot return the same issues, the same warnings (same findings, same *)
(* order, same content) and the same success flag.                         *)

C5_Idempotent ==
    (Returned /\ prev.returned) => result = prev

\* a second pass that returned at least one issue and two warnings
C5_Witness ==
    /\ Returned
    /\ prev.returned
    /\ Len(result.issues) >= 1
    /\ Len(result.warnings) >= 2

----------------------------------------------------------------------------
(* Vocabulary of the format properties *)

\* the agent and the text of the file the command-file check ran on
FormatKey  == registry[1].key
FormatText == fs.nodes[FormatFile(FormatKey)].text

\* the command-file check has run
Checked == pc = "context"

Delimiters(text) == {i \in 1..Len(text) : text[i] = "---"}

\* the delimiter rule: the text begins with `---` and holds a second `---`
WellFormed(text) == 1 \in Delimiters(text) /\ Cardinality(Delimiters(text)) >= 2

\* the position of the second `---` of a well-formed text
SecondDelimiter(text) ==
    CHOOSE i \in Delimiters(text) :
        i > 1 /\ \A j \in Delimiters(text) : j > 1 => i <= j

\* the frontmatter block: the text between the first and the second `---`
FrontBlock(text) == Slice(text, 2, SecondDelimiter(text) - 1)

\* the body: everything after the second `---`
BodyOf(text) == Slice(text, SecondDelimiter(text) + 1, Len(text))

\* position j begins its line but for blanks
OnlyBlanksBefore(text, j) ==
    \A k \in 1..(j - 1) : (\A m \in k..(j - 1) : text[m] # "\n") => text[k] = " "

\* a line of text is: optional whitespace, then key
HasKeyLine(text, key) ==
    \E j \in 1..Len(text) : text[j] = key /\ OnlyBlanksBefore(text, j)

\* a line of text begins: optional whitespace, name, optional whitespace, `=`
\* (as the pattern \s has it, the whitespace before `=` may hold a line break)
HasAssignLine(text, name) ==
    \E j \in 1..Len(text) :
        /\ text[j] = name
        /\ OnlyBlanksBefore(text, j)
        /\ \E e \in (j + 1)..Len(text) :
               text[e] = "=" /\ \A k \in (j + 1)..(e - 1) : text[k] \in {" ", "\n"}

HasAny(text, lits) == \E i \in 1..Len(text) : text[i] \in lits

\* 1 when b holds, 0 otherwise
Count(b) == IF b THEN 1 ELSE 0

\* every finding names the file the check ran on, for the agent
AllOnFile ==
    /\ \A i \in 1..Len(issues) :
           issues[i].agent = FormatKey /\ issues[i].file = FormatFile(FormatKey)
    /\ \A i \in 1..Len(warnings) :
           warnings[i].agent = FormatKey /\ warnings[i].file = FormatFile(FormatKey)

Messages(list) == [i \in 1..Len(list) |-> list[i].message]

----------------------------------------------------------------------------
(* C6: a markdown-format or copilot-format file that fails the delimiter   *)
(* rule (it does not begin with `---`, or it holds fewer than two `---`)   *)
(* gets exactly one format error and no other finding.                     *)

C6_DelimiterFailureOneError ==
    (Checked /\ FormatKey \in {"claude", "copilot"} /\ ~WellFormed(FormatText)) =>
        /\ Len(issues) = 1
        /\ issues[1].category = "format"
        /\ issues[1].severity = "error"
        /\ warnings = <<>>
        /\ AllOnFile

\* a copilot file that begins with `---`, holds no second one and holds a
\* description line
C6_Witness ==
    /\ Checked
    /\ FormatKey = "copilot"
    /\ Delimiters(FormatText) = {1}
    /\ HasAny(FormatText, {"description:"})
    /\ Len(issues) = 1

----------------------------------------------------------------------------
(* C7: for a frontmatter-markdown file with a well-formed delimiter        *)
(* structure the findings are exactly: one error iff no line of the        *)
(* frontmatter block is optional whitespace + `description:`; one warning  *)
(* iff the body holds neither `{SCRIPT}` nor, in any case, `scripts/`; one *)
(* warning iff the body holds none of `$ARGUMENTS`, `{ARGS}`, `{{args}}`.  *)

NoDescription(text) == ~HasKeyLine(FrontBlock(text), "description:")
NoScript(text)      == ~HasAny(BodyOf(text), {"{SCRIPT}", "scripts/", "Scripts/"})
NoArguments(text)   == ~HasAny(BodyOf(text), {"$ARGUMENTS", "{ARGS}", "{{args}}"})

C7_MarkdownFindingsExact ==
    (Checked /\ FormatKey = "claude" /\ WellFormed(FormatText)) =>
        /\ AllOnFile
        /\ Messages(issues) =
               IF NoDescription(FormatText)
               THEN <<"Missing 'description:' field in YAML frontmatter">>
               ELSE <<>>
        /\ \A i \in 1..Len(issues) : issues[i].category = "format"
        /\ Messages(warnings) =
               (IF NoScript(FormatText)
                THEN <<"No {SCRIPT} placeholder or script reference found in command body">>
                ELSE <<>>)
               \o (IF NoArguments(FormatText)
                   THEN <<"No argument placeholder ($ARGUMENTS, {ARGS}, {{args}}) found in command body">>
                   ELSE <<>>)
        /\ \A i \in 1..Len(warnings) : warnings[i].category = "content"

\* a well-formed file whose only `description:` stands in the body: one error
\* and nothing else
C7_Witness ==
    /\ Checked
    /\ FormatKey = "claude"
    /\ WellFormed(FormatText)
    /\ HasKeyLine(BodyOf(FormatText), "description:")
    /\ Len(issues) = 1
    /\ warnings = <<>>

----------------------------------------------------------------------------
(* C8: for a key-value (TOML) file the findings are exactly: one error iff *)
(* no line matches `description =`, one error iff no line matches          *)
(* `prompt =`, both independently, and one migration warning iff the       *)
(* content holds `$ARGUMENTS` and does not hold `{{args}}`.                *)

----------------------------------------------------------------------------
(* C9 as stated: for a detected TOML-format agent whose commands directory *)
(* exists and holds no `*.toml` file, the pass yields exactly one warning  *)
(* and no error for that agent.                                            *)

TomlAgents == {"gemini", "qwen"}

CommandsDir(e) == <<e.folder, <<"commands">>>>

\* the names of the files a directory holds
Children(d) == {p[Len(p)] : p \in {q \in DOMAIN fs.nodes : Len(q) = Len(d) + 1 /\ Parent(q) = d}}

\* the agent is detected, its commands directory exists and holds no *.toml
EmptyTomlDir(e) ==
    /\ e.key \in TomlAgents
    /\ e.key \in DetectedKeys
    /\ Exists(CommandsDir(e))
    /\ \A n \in Children(CommandsDir(e)) : n[Len(n)] # ".toml"

C9_EmptyTomlDirOneWarning ==
    Returned =>
        \A i \in 1..Len(registry) :
            EmptyTomlDir(registry[i]) =>
                /\ Cardinality(OfAgent(warnings, registry[i].key)) = 1
                /\ OfAgent(issues, registry[i].key) = {}

(* C9 amended: for such an agent the command-file check records exactly    *)
(* one warning ("No command files found") and no error, the required-      *)
(* command check records one more warning naming all eight commands, and   *)
(* every other finding of the agent is about its context file.             *)

\* the findings of list for agent a that are not about its context file
NotContext(list, a) ==
    SelectSeq(list, LAMBDA f : f.agent = a /\ f.category # "context")

AllRequired == [i \in 1..Len(required_commands) |-> <<required_commands[i]>>]

C9_EmptyTomlDirTwoWarnings ==
    Returned =>
        \A i \in 1..Len(registry) :
            EmptyTomlDir(registry[i]) =>
                LET w == NotContext(warnings, registry[i].key) IN
                /\ NotContext(issues, registry[i].key) = <<>>
                /\ Len(w) = 2
                /\ w[1].category = "commands"
                /\ w[1].message = "No command files found"
                /\ w[1].arg = CommandsDir(registry[i])
                /\ w[2].category = "commands"
                /\ w[2].message = "Missing expected spec-kit commands"
                /\ w[2].arg = AllRequired

\* a detected gemini whose commands directory holds only a file that is not
\* *.toml
C9_Witness ==
    /\ Returned
    /\ \E i \in 1..Len(registry) :
           /\ EmptyTomlDir(registry[i])
           /\ Children(CommandsDir(registry[i])) # {}

----------------------------------------------------------------------------
(* C10: a read failure of an artifact file or of a context file records    *)
(* exactly one error carrying that file's path for the agent being         *)
(* checked, and the pass goes on: the other files of the directory, the    *)
(* context file and required-command checks of the agent and the later     *)
(* agents are still processed.                                             *)

\* the directory whose files the pass validates for a detected agent, <<>>
\* when there is none
ValidatedDir(paths) ==
    IF "commands" \in DOMAIN paths THEN paths["commands"]
    ELSE IF "workflows" \in DOMAIN paths THEN paths["workflows"]
    ELSE IF "prompts" \in DOMAIN paths THEN paths["prompts"]
    ELSE <<>>

\* the files the pass validates for a detected agent
ValidatedFiles(d) ==
    IF ValidatedDir(d.paths) = <<>> THEN {}
    ELSE {Join(ValidatedDir(d.paths), n) :
              n \in {m \in Children(ValidatedDir(d.paths)) :
                        Matches(m, Ext(_get_expected_extension(d.key)))}}

\* the text breaks a mandatory rule of the format of the agent
BreaksFormat(key, text) ==
    IF key \in TomlAgents
    THEN ~HasAssignLine(text, "description") \/ ~HasAssignLine(text, "prompt")
    ELSE ~WellFormed(text) \/ NoDescription(text)

\* exactly one finding names file f for agent a: an error of the category
OneErrorOnly(a, f, category) ==
    /\ Cardinality(OfFile(issues, a, f)) = 1
    /\ \A i \in OfFile(issues, a, f) :
           issues[i].category = category /\ issues[i].severity = "error"
    /\ OfFile(warnings, a, f) = {}

C10_ReadFailureOneErrorNoAbort ==
    Returned =>
        \A j \in 1..Len(detected) :
            LET d == detected[j] IN
            /\ \A f \in ValidatedFiles(d) :
                   /\ ReadFails(f) => OneErrorOnly(d.key, f, "commands")
                   /\ (~ReadFails(f) /\ BreaksFormat(d.key, ReadText(f)))
                          => OfFile(issues, d.key, f) # {}
            /\ "context_file" \in DOMAIN d.paths =>
                   /\ ReadFails(d.paths["context_file"])
                          => OneErrorOnly(d.key, d.paths["context_file"], "context")
                   /\ (~ReadFails(d.paths["context_file"])
                         /\ HasAny(ReadText(d.paths["context_file"]), {"[DATE]"}))
                          => OfFile(warnings, d.key, d.paths["context_file"]) # {}
            /\ (RequiredDir(d.paths) # <<>>
                  /\ \E i \in 1..Len(required_commands) :
                         ~Exists(RequiredFile(d.key, RequiredDir(d.paths), required_commands[i])))
                   => \E i \in OfAgent(warnings, d.key) :
                          warnings[i].message = "Missing expected spec-kit commands"

\* the first detected agent's directory lists an unreadable file before a
\* readable one that breaks its format, and a later agent has findings
C10_Witness ==
    /\ Returned
    /\ Len(detected) >= 2
    /\ OfAgent(warnings, detected[Len(detected)].key) # {}
    /\ LET dir == ValidatedDir(detected[1].paths) IN
         /\ dir # <<>>
         /\ Len(Glob(dir, Ext(_get_expected_extension(detected[1].key)))) = 2
         /\ ReadFails(Glob(dir, Ext(_get_expected_extension(detected[1].key)))[1])
         /\ OfFile(issues, detected[1].key,
                   Glob(dir, Ext(_get_expected_extension(detected[1].key)))[2]) # {}

----------------------------------------------------------------------------
(* C11: for every registry whose entries have the declared shape (base     *)
(* folder a string, None or absent), validate_all returns a triple: no     *)
(* pass ends with an error raised out of the validator.                    *)

C11_NoRaisedError == pc # "raised"

----------------------------------------------------------------------------
(* C12: after a pass, get_summary reports total_issues = the length of the *)
(* issues list and total_warnings = the length of the warnings list; each  *)
(* of errors_by_agent and warnings_by_agent maps exactly the agent keys    *)
(* with at least one finding in its list to the number of their findings,  *)
(* so its counts sum to the total.                                         *)

\* the sum of the values of the map f
RECURSIVE SumOf(_)
SumOf(f) ==
    IF DOMAIN f = {} THEN 0
    ELSE LET a == CHOOSE x \in DOMAIN f : TRUE IN
         f[a] + SumOf([x \in DOMAIN f \ {a} |-> f[x]])

\* by_agent counts the findings of list by agent, total is their number
Summarizes(total, by_agent, list) ==
    /\ total = Len(list)
    /\ DOMAIN by_agent = {list[i].agent : i \in 1..Len(list)}
    /\ \A a \in DOMAIN by_agent :
           by_agent[a] = Cardinality(OfAgent(list, a)) /\ by_agent[a] >= 1
    /\ SumOf(by_agent) = total

C12_SummaryCounts ==
    Returned =>
        /\ Summarizes(get_summary.total_issues, get_summary.errors_by_agent,
                      result.issues)
        /\ Summarizes(get_summary.total_warnings, get_summary.warnings_by_agent,
                      result.warnings)

\* a pass in which one agent has two errors and two agents have warnings
C12_Witness ==
    /\ Returned
    /\ \E a \in DOMAIN get_summary.errors_by_agent :
           get_summary.errors_by_agent[a] = 2
    /\ Cardinality(DOMAIN get_summary.warnings_by_agent) = 2

----------------------------------------------------------------------------
(* C13: when validate_all is called a second time on the same validator    *)
(* over an unmodified snapshot, the issues and the warnings it returns     *)
(* equal those the first call returned: no finding of the earlier pass is  *)
(* carried over.                                                           *)

C13_NoCrossRunState ==
    (Returned /\ prev.returned) =>
        /\ result.issues = prev.issues
        /\ result.warnings = prev.warnings

----------------------------------------------------------------------------
(* C14 as stated: whenever a format error is recorded for a file           *)
(* (malformed delimiter structure or a missing mandated field), no further *)
(* finding is recorded for that file.                                      *)

FormatErrors == {i \in 1..Len(issues) : issues[i].category = "format"}

C14_FormatErrorShortCircuits ==
    (Checked /\ FormatErrors # {}) => Len(issues) + Len(warnings) = 1

(* C14 amended: only a failure of the delimiter rule ends the checks of    *)
(* the file with one finding.  A missing mandated field records its error  *)
(* and the other checks of the file still record their findings: the body  *)
(* warnings of a markdown file, the `mode:` warning of a copilot file, the *)
(* `prompt =` error and the migration warning of a TOML file.              *)

NoMode(text) == ~HasKeyLine(FrontBlock(text), "mode:")

Migration(text) == HasAny(text, {"$ARGUMENTS"}) /\ ~HasAny(text, {"{{args}}"})

C14_OnlyDelimiterFailureShortCircuits ==
    Checked =>
        /\ (FormatKey \in {"claude", "copilot"} /\ ~WellFormed(FormatText)) =>
               Len(issues) + Len(warnings) = 1
        /\ (FormatKey = "claude" /\ WellFormed(FormatText)
               /\ NoDescription(FormatText)) =>
               /\ Len(issues) = 1
               /\ Len(warnings) = Count(NoScript(FormatText))
                                    + Count(NoArguments(FormatText))
        /\ (FormatKey = "copilot" /\ WellFormed(FormatText)
               /\ NoDescription(FormatText)) =>
               /\ Len(issues) = 1
               /\ Len(warnings) = Count(NoMode(FormatText))
        /\ (FormatKey = "gemini" /\ ~HasAssignLine(FormatText, "description")) =>
               /\ Len(issues) = 1 + Count(~HasAssignLine(FormatText, "prompt"))
               /\ Len(warnings) = Count(Migration(FormatText))

\* a well-formed markdown file without description, script reference and
\* argument placeholder: one format error and two warnings on the file
C14_Witness ==
    /\ Checked
    /\ FormatKey = "claude"
    /\ WellFormed(FormatText)
    /\ FormatErrors # {}
    /\ Len(warnings) = 2
    /\ AllOnFile

----------------------------------------------------------------------------
(* C15: for every detected agent, the files that are format-validated and  *)
(* the required command names are taken from one directory, the primary    *)
(* artifact root: the first role present in the order commands, workflows, *)
(* prompts, agents.                                                        *)

\* the primary artifact root of the detected paths, <<>> when there is none
PrimaryRoot(paths) ==
    IF "commands" \in DOMAIN paths THEN paths["commands"]
    ELSE IF "workflows" \in DOMAIN paths THEN paths["workflows"]
    ELSE IF "prompts" \in DOMAIN paths THEN paths["prompts"]
    ELSE IF "agents" \in DOMAIN paths THEN paths["agents"]
    ELSE <<>>

\* the files of directory dir that carry the extension of the agent
ArtifactFiles(key, dir) ==
    {Join(dir, n) : n \in {m \in Children(dir) :
                               Matches(m, Ext(_get_expected_extension(key)))}}

\* the files of dir have been through the command-file check for the agent:
\* a directory without files is reported, a file that cannot be read and a
\* file that breaks the delimiter rule each have their error
FormatValidated(key, dir) ==
    /\ ArtifactFiles(key, dir) = {} =>
           \E i \in OfAgent(warnings, key) :
               warnings[i].category = "commands" /\ warnings[i].arg = dir
    /\ \A f \in ArtifactFiles(key, dir) :
           (ReadFails(f) \/ BreaksFormat(key, ReadText(f)))
               => OfFile(issues, key, f) # {}

\* the required names have been looked up in dir for the agent
RequiredLookedUp(key, dir) ==
    (\E i \in 1..Len(required_commands) :
         ~Exists(RequiredFile(key, dir, required_commands[i])))
    <=> \E i \in OfAgent(warnings, key) :
            warnings[i].message = "Missing expected spec-kit commands"

C15_OneDirectoryForBothChecks ==
    Returned =>
        \A j \in 1..Len(detected) :
            LET root == PrimaryRoot(detected[j].paths) IN
            root # <<>> =>
                /\ FormatValidated(detected[j].key, root)
                /\ RequiredLookedUp(detected[j].key, root)

----------------------------------------------------------------------------
(* C16: for each detected agent of the single-root family the structural   *)
(* checker records exactly one structure warning when the commands role is *)
(* absent from the detected paths, no structure finding when the role is   *)
(* present, and never a structure error.                                   *)

\* the indices of the findings of list of category "structure" for agent a
Structure(list, a) ==
    {i \in 1..Len(list) : list[i].agent = a /\ list[i].category = "structure"}

C16_SingleRootWarningIffRoleAbsent ==
    Returned =>
        \A j \in 1..Len(detected) :
            detected[j].key \in SingleRootAgents =>
                /\ Structure(issues, detected[j].key) = {}
                /\ Cardinality(Structure(warnings, detected[j].key)) =
                       IF "commands" \in DOMAIN detected[j].paths THEN 0 ELSE 1

----------------------------------------------------------------------------
(* C17: for a detected copilot agent a missing agents directory records    *)
(* exactly one structure error, so that success is false, and a missing    *)
(* prompts directory records exactly one structure warning; the two are    *)
(* judged independently and a directory that exists records nothing.       *)

\* the directory named n inside the base directory of the detected agent
SubDirOf(d, n) == Join(d.paths["dir"], <<n>>)

\* the findings of list at the indices I name the directory dir with message
AllAbout(list, I, dir, message) ==
    \A i \in I : list[i].arg = dir /\ list[i].message = message

C17_CopilotAgentsErrorPromptsWarning ==
    Returned =>
        \A j \in 1..Len(detected) :
            LET d == detected[j] IN
            d.key = "copilot" =>
                /\ Cardinality(Structure(issues, d.key)) =
                       Count(~Exists(SubDirOf(d, "agents")))
                /\ AllAbout(issues, Structure(issues, d.key), SubDirOf(d, "agents"),
                            "Expected agents directory not found")
                /\ \A i \in Structure(issues, d.key) : issues[i].severity = "error"
                /\ ~Exists(SubDirOf(d, "agents")) => ~result.success
                /\ Cardinality(Structure(warnings, d.key)) =
                       Count(~Exists(SubDirOf(d, "prompts")))
                /\ AllAbout(warnings, Structure(warnings, d.key), SubDirOf(d, "prompts"),
                            "Expected prompts directory not found")

\* a detected copilot without agents directory whose only issue is the
\* structure error
C17_Witness ==
    /\ Returned
    /\ \E j \in 1..Len(detected) :
           /\ detected[j].key = "copilot"
           /\ ~Exists(SubDirOf(detected[j], "agents"))
           /\ Exists(SubDirOf(detected[j], "prompts"))
    /\ Len(result.issues) = 1
    /\ ~result.success

----------------------------------------------------------------------------
(* C18: for a detected windsurf or kilocode agent a missing workflows      *)
(* directory and a missing rules directory each record one structure       *)
(* warning, independently, and never an error: the structural findings of  *)
(* this family do not make success false.                                  *)

\* the structure warnings of agent a that name the directory dir
AboutDir(a, dir, message) ==
    {i \in Structure(warnings, a) :
        warnings[i].arg = dir /\ warnings[i].message = message}

C18_RulesWorkflowsWarningsOnly ==
    Returned =>
        \A j \in 1..Len(detected) :
            LET d == detected[j] IN
            d.key \in {"windsurf", "kilocode"} =>
                /\ Structure(issues, d.key) = {}
                /\ Cardinality(AboutDir(d.key, SubDirOf(d, "workflows"),
                                        "Expected workflows directory not found"))
                       = Count(~Exists(SubDirOf(d, "workflows")))
                /\ Cardinality(AboutDir(d.key, SubDirOf(d, "rules"),
                                        "Expected rules directory not found"))
                       = Count(~Exists(SubDirOf(d, "rules")))
                /\ Cardinality(Structure(warnings, d.key))
                       = Count(~Exists(SubDirOf(d, "workflows")))
                         + Count(~Exists(SubDirOf(d, "rules")))
                /\ (\A i \in 1..Len(issues) : issues[i].category = "structure")
                       => (result.success <=> OfAgent(issues, "copilot") = {})

\* a pass that detected only windsurf, without its rules directory, and
\* returned success
C18_Witness ==
    /\ Returned
    /\ DetectedKeys = {"windsurf"}
    /\ ~Exists(SubDirOf(detected[1], "rules"))
    /\ Structure(warnings, "windsurf") # {}
    /\ result.success

----------------------------------------------------------------------------
(* C19: an agent of no layout family (codex, auggie, roo, q, amp, bob and  *)
(* any other key outside the three families) never receives a finding of   *)
(* category "structure", whatever its directory holds.                     *)

\* the agents of the single-root, dual-root and rules-plus-workflows families
FamilyAgents ==
    {"claude", "gemini", "cursor-agent", "qwen", "opencode", "codebuddy",
     "qoder", "shai"}
    \cup {"copilot"} \cup {"windsurf", "kilocode"}

C19_NoFamilyNoStructureFinding ==
    /\ \A i \in 1..Len(issues) :
           issues[i].category = "structure" => issues[i].agent \in FamilyAgents
    /\ \A i \in 1..Len(warnings) :
           warnings[i].category = "structure" => warnings[i].agent \in FamilyAgents

\* a pass over two detected agents of no family, one of them without its
\* artifact directory, both with findings
C19_Witness ==
    /\ Returned
    /\ Len(detected) = 2
    /\ DetectedKeys \cap FamilyAgents = {}
    /\ \E j \in 1..Len(detected) :
           DOMAIN detected[j].paths = {"dir", "context_file"}
    /\ \A a \in DetectedKeys : OfAgent(warnings, a) # {}

----------------------------------------------------------------------------
(* C20: for a detected agent with a primary artifact directory, a required *)
(* name N is missing iff `N.<ext>` (ext toml for gemini and qwen, md       *)
(* otherwise) or, for copilot, `speckit-N.agent.md` does not exist in that *)
(* directory.  If a name is missing, exactly one commands warning lists    *)
(* all the missing names in the order of the fixed list; if none is        *)
(* missing there is no such warning; it is never an error.                 *)

\* the file name expected for the required name n
ExpectedName(key, n) ==
    IF key = "copilot" THEN <<"speckit-", n, ".agent", ".md">>
    ELSE IF key \in {"gemini", "qwen"} THEN <<n, ".toml">>
    ELSE <<n, ".md">>

RequiredNames ==
    <<"specify", "plan", "tasks", "implement",
      "constitution", "clarify", "analyze", "checklist">>

\* the required names missing from directory dir, in the order of the list
MissingNames(key, dir) ==
    LET missing == SelectSeq(RequiredNames,
                             LAMBDA n : Join(dir, ExpectedName(key, n)) \notin DOMAIN fs.nodes)
    IN  [i \in 1..Len(missing) |-> <<missing[i]>>]

\* the findings of list for agent a that list missing commands
Listing(list, a) ==
    {i \in OfAgent(list, a) : list[i].message = "Missing expected spec-kit commands"}

C20_OneWarningListsAllMissing ==
    Returned =>
        \A j \in 1..Len(detected) :
            LET d    == detected[j]
                root == PrimaryRoot(d.paths)
            IN  root # <<>> =>
                /\ Listing(issues, d.key) = {}
                /\ Cardinality(Listing(warnings, d.key)) =
                       Count(MissingNames(d.key, root) # <<>>)
                /\ \A i \in Listing(warnings, d.key) :
                       /\ warnings[i].arg = MissingNames(d.key, root)
                       /\ warnings[i].category = "commands"
                       /\ warnings[i].severity # "error"

\* a pass over a copilot directory holding all eight commands: no finding
C20_Witness ==
    /\ Returned
    /\ DetectedKeys = {"copilot"}
    /\ MissingNames("copilot", PrimaryRoot(detected[1].paths)) = <<>>
    /\ result.warnings = <<>>
    /\ result.success

----------------------------------------------------------------------------
(* C21: for a copilot-format file with a well-formed delimiter structure   *)
(* the findings are exactly: one error iff the frontmatter block has no    *)
(* `description:` line, and one warning, never an error, iff it has no     *)
(* `mode:` line; no check is applied to the body.                          *)

C21_CopilotFindingsExact ==
    (Checked /\ FormatKey = "copilot" /\ WellFormed(FormatText)) =>
        /\ AllOnFile
        /\ Messages(issues) =
               IF NoDescription(FormatText)
               THEN <<"Missing 'description:' field in YAML frontmatter">>
               ELSE <<>>
        /\ Messages(warnings) =
               IF NoMode(FormatText)
               THEN <<"Missing 'mode:' field in YAML frontmatter (recommended for Copilot)">>
               ELSE <<>>
        /\ \A i \in 1..Len(issues) :
               issues[i].category = "format" /\ issues[i].severity = "error"
        /\ \A i \in 1..Len(warnings) :
               warnings[i].category = "format" /\ warnings[i].severity # "error"

\* a copilot file with description and without mode, whose body holds no
\* placeholder: no issue and the one warning
C21_Witness ==
    /\ Checked
    /\ FormatKey = "copilot"
    /\ WellFormed(FormatText)
    /\ ~NoDescription(FormatText)
    /\ NoMode(FormatText)
    /\ issues = <<>>
    /\ Len(warnings) = 1

----------------------------------------------------------------------------
(* C22: the validator applied to a file and the extension that selects     *)
(* the files depend on the agent key only, never on the content: gemini    *)
(* and qwen use the key-value rules on `*.toml`, copilot the copilot rules *)
(* on `*.agent.md`, every other agent the frontmatter-markdown rules on    *)
(* `*.md`; the same content under agents of different format is judged by  *)
(* different rules.                                                        *)

\* the suffix of the names of the files selected for the agent
SelectedSuffix(key) ==
    IF key \in {"gemini", "qwen"} THEN <<".toml">>
    ELSE IF key = "copilot" THEN <<".agent", ".md">>
    ELSE <<".md">>

EndsWith(name, suffix) ==
    /\ Len(name) >= Len(suffix)
    /\ \A i \in 1..Len(suffix) : name[Len(name) - Len(suffix) + i] = suffix[i]

\* m when b holds
MessageIf(b, m) == IF b THEN {m} ELSE {}

\* the messages of the delimiter rule, {} for a well-formed text
DelimiterMessages(text) ==
    IF 1 \notin Delimiters(text)
    THEN {"Missing YAML frontmatter (should start with ---)"}
    ELSE IF ~WellFormed(text) THEN {"Invalid YAML frontmatter format"}
    ELSE {}

\* the messages the rules of the format of the agent give for the text
RuleMessages(key, text) ==
    IF key \in {"gemini", "qwen"}
    THEN MessageIf(~HasAssignLine(text, "description"),
                   "Missing 'description =' field in TOML file")
         \cup MessageIf(~HasAssignLine(text, "prompt"),
                        "Missing 'prompt =' field in TOML file")
         \cup MessageIf(Migration(text),
                        "TOML format should use {{args}} instead of $ARGUMENTS")
    ELSE IF DelimiterMessages(text) # {} THEN DelimiterMessages(text)
    ELSE IF key = "copilot"
    THEN MessageIf(NoDescription(text),
                   "Missing 'description:' field in YAML frontmatter")
         \cup MessageIf(NoMode(text),
                        "Missing 'mode:' field in YAML frontmatter (recommended for Copilot)")
    ELSE MessageIf(NoDescription(text),
                   "Missing 'description:' field in YAML frontmatter")
         \cup MessageIf(NoScript(text),
                        "No {SCRIPT} placeholder or script reference found in command body")
         \cup MessageIf(NoArguments(text),
                        "No argument placeholder ($ARGUMENTS, {ARGS}, {{args}}) found in command body")

\* the messages of the findings that name file f for agent a
MessagesOn(a, f) ==
    {issues[i].message : i \in OfFile(issues, a, f)}
    \cup {warnings[i].message : i \in OfFile(warnings, a, f)}

C22_DispatchByAgentKeyOnly ==
    Returned =>
        \A j \in 1..Len(detected) :
            LET d    == detected[j]
                root == ValidatedDir(d.paths)
            IN  /\ root # <<>>
                /\ \A n \in Children(root) :
                       MessagesOn(d.key, Join(root, n)) =
                           IF EndsWith(n, SelectedSuffix(d.key))
                           THEN RuleMessages(d.key, ReadText(Join(root, n)))
                           ELSE {}

\* claude and gemini over the same text: the text passes the rules of gemini
\* on specify.toml and fails those of claude on specify.md
C22_Witness ==
    /\ Returned
    /\ DetectedKeys = {"claude", "gemini"}
    /\ LET md   == <<<<".claude">>, <<"commands">>, <<"specify", ".md">>>>
           toml == <<<<".gemini">>, <<"commands">>, <<"specify", ".toml">>>>
       IN  /\ ReadText(md) = ReadText(toml)
           /\ MessagesOn("gemini", toml) = {}
           /\ MessagesOn("claude", md) # {}
           /\ MessagesOn("gemini", <<<<".gemini">>, <<"commands">>, <<"specify", ".md">>>>) = {}

----------------------------------------------------------------------------
(* C23: in the issues list and in the warnings list the findings of an     *)
(* agent that comes earlier in the registry precede those of a later agent *)
(* (the findings of an agent are contiguous), and within one agent they    *)
(* appear in the order of the checks: structural, format, context file,    *)
(* required commands.                                                      *)

\* the position of the agent key in the registry
RegistryPosition(a) == CHOOSE i \in 1..Len(registry) : registry[i].key = a

\* the check that records the finding: 1 structural, 2 command files and
\* their format, 3 context file, 4 required commands
CheckOf(f) ==
    CASE f.category = "structure" -> 1
      [] f.category \in {"format", "content"} -> 2
      [] f.category = "context" -> 3
      [] f.category = "commands" ->
           IF f.message = "Missing expected spec-kit commands" THEN 4 ELSE 2

InCheckOrder(list) ==
    \A i, j \in 1..Len(list) :
        i < j =>
            \/ RegistryPosition(list[i].agent) < RegistryPosition(list[j].agent)
            \/ /\ list[i].agent = list[j].agent
               /\ CheckOf(list[i]) <= CheckOf(list[j])

C23_FindingsInRegistryAndCheckOrder ==
    (pc # "start" /\ detected # <<>>) =>
        InCheckOrder(issues) /\ InCheckOrder(warnings)

\* the checks that recorded a finding of list for agent a
ChecksOf(list, a) == {CheckOf(list[i]) : i \in OfAgent(list, a)}

\* a pass whose first agent has warnings of three checks and whose second
\* agent has an issue and warnings of two checks
C23_Witness ==
    /\ Returned
    /\ Len(detected) = 2
    /\ Cardinality(ChecksOf(warnings, detected[1].key)) >= 3
    /\ OfAgent(issues, detected[2].key) # {}
    /\ Cardinality(ChecksOf(warnings, detected[2].key)) >= 2

----------------------------------------------------------------------------
(* C24: the files of one artifact directory are validated in lexicographic *)
(* file-name order, so that the per-file findings of a directory appear in *)
(* that order in the issues list and in the warnings list, however the     *)
(* filesystem lists the directory.                                         *)

\* the rank of a file name of the snapshots in lexicographic order
LexRank(name) ==
    CASE name = <<"copilot-instructions", ".md">>             -> 1
      [] name = <<"plan", ".md">>                             -> 2
      [] name = <<"plan", ".toml">>                           -> 3
      [] name = <<"specify-rules", ".md">>                    -> 4
      [] name = <<"specify-rules", ".mdc">>                   -> 5
      [] name = <<"specify", ".md">>                          -> 6
      [] name = <<"specify", ".toml">>                        -> 7
      [] name = <<"speckit-", "specify", ".agent", ".md">>    -> 8
      [] OTHER                                                -> 0

\* the findings of list that name files of one directory for one agent are in
\* the lexicographic order of the file names
InNameOrder(list) ==
    \A i, j \in 1..Len(list) :
        (/\ i < j
         /\ list[i].agent = list[j].agent
         /\ list[i].category # "context" /\ list[j].category # "context"
         /\ list[i].file # NOFILE /\ list[j].file # NOFILE
         /\ Parent(list[i].file) = Parent(list[j].file))
        => LexRank(list[i].file[Len(list[i].file)])
               <= LexRank(list[j].file[Len(list[j].file)])

C24_FilesInLexicographicOrder ==
    Returned => InNameOrder(issues) /\ InNameOrder(warnings)

----------------------------------------------------------------------------
(* C25: for a readable context file the four checks are independent, each  *)
(* gives at most one warning and never an error: (a) the START marker is   *)
(* present and the END marker absent, (b) `[PROJECT NAME]` is present,     *)
(* (c) `[DATE]` is present, (d) neither "Active Technologies" nor          *)
(* "Technologies" occurs.  Any subset can be reported together and none    *)
(* makes success false.                                                    *)

ContextText == fs.nodes[ContextFile].text

StartWithoutEnd(text) ==
    /\ HasAny(text, {"<!-- MANUAL ADDITIONS START -->"})
    /\ ~HasAny(text, {"<!-- MANUAL ADDITIONS END -->"})

NoTechnologies(text) == ~HasAny(text, {"Active Technologies", "Technologies"})

\* <<m>> when b holds
ReportIf(b, m) == IF b THEN <<m>> ELSE <<>>

\* the findings of list that name the context file, in their order
OnContextFile(list) == SelectSeq(list, LAMBDA f : f.file = ContextFile)

C25_ContextChecksIndependent ==
    pc \in {"required", "return", "done"} =>
        /\ OnContextFile(issues) = <<>>
        /\ Messages(OnContextFile(warnings)) =
               ReportIf(StartWithoutEnd(ContextText),
                        "Found MANUAL ADDITIONS START marker but missing END marker")
               \o ReportIf(HasAny(ContextText, {"[PROJECT NAME]"}),
                           "Context file contains unreplaced [PROJECT NAME] placeholder")
               \o ReportIf(HasAny(ContextText, {"[DATE]"}),
                           "Context file contains unreplaced [DATE] placeholder")
               \o ReportIf(NoTechnologies(ContextText),
                           "Context file may be missing 'Active Technologies' section")
        /\ \A i \in 1..Len(warnings) :
               warnings[i].file = ContextFile =>
                   /\ warnings[i].category = "context"
                   /\ warnings[i].agent = "claude"
                   /\ warnings[i].severity # "error"
        /\ Returned => result.success

\* a context file for which all four checks report, and the pass succeeds
C25_Witness ==
    /\ Returned
    /\ Len(OnContextFile(warnings)) = 4
    /\ result.success

----------------------------------------------------------------------------
(* C26: no deduplication across agents: when several detected agents       *)
(* designate the same context file (q, amp and bob share AGENTS.md), the   *)
(* context file check runs once per agent and each agent records its own   *)
(* copy of every finding about the file: one finding per (agent, check).   *)

\* the messages of the findings of list that name file f for agent a, in
\* their order
MessagesFor(list, a, f) ==
    Messages(SelectSeq(list, LAMBDA x : x.agent = a /\ x.file = f))

\* no message occurs twice in the sequence
NoRepeat(msgs) == \A i, j \in 1..Len(msgs) : i # j => msgs[i] # msgs[j]

\* the context file warrants a finding: it cannot be read, or it holds a
\* placeholder
Warranted(f) == ReadFails(f) \/ HasAny(ReadText(f), {"[PROJECT NAME]", "[DATE]"})

C26_SharedContextFilePerAgent ==
    Returned =>
        \A j, k \in 1..Len(detected) :
            LET a == detected[j]
                b == detected[k]
            IN  (/\ j # k
                 /\ "context_file" \in DOMAIN a.paths
                 /\ "context_file" \in DOMAIN b.paths
                 /\ a.paths["context_file"] = b.paths["context_file"])
                => LET f == a.paths["context_file"] IN
                   /\ MessagesFor(issues, a.key, f) = MessagesFor(issues, b.key, f)
                   /\ MessagesFor(warnings, a.key, f) = MessagesFor(warnings, b.key, f)
                   /\ NoRepeat(MessagesFor(issues, a.key, f))
                   /\ NoRepeat(MessagesFor(warnings, a.key, f))
                   /\ Warranted(f) =>
                          MessagesFor(issues, a.key, f) \o MessagesFor(warnings, a.key, f)
                              # <<>>

\* q and amp detected over one AGENTS.md, each with three warnings about it
C26_Witness ==
    /\ Returned
    /\ DetectedKeys = {"q", "amp"}
    /\ Len(MessagesFor(warnings, "q", <<<<"AGENTS", ".md">>>>)) >= 3
    /\ Len(MessagesFor(warnings, "amp", <<<<"AGENTS", ".md">>>>)) >= 3

----------------------------------------------------------------------------
(* C27: every entry of the detected paths holds the role `dir`, every role *)
(* it holds maps to a path that exists in the snapshot, and a context file *)
(* that lives inside a role directory (agents of copilot, rules of         *)
(* cursor-agent, windsurf, kilocode, auggie, roo) is recorded only         *)
(* together with the role of that directory.  The structure error "Agent   *)
(* directory not found" is never recorded.                                 *)

\* the context file of the detected paths lies inside the agent's base
\* directory
ContextFileInside(paths) ==
    /\ "context_file" \in DOMAIN paths
    /\ Len(paths["context_file"]) > Len(paths["dir"])
    /\ Slice(paths["context_file"], 1, Len(paths["dir"])) = paths["dir"]

C27_DetectedPathsExist ==
    /\ \A j \in 1..Len(detected) :
           LET paths == detected[j].paths IN
           /\ "dir" \in DOMAIN paths
           /\ \A r \in DOMAIN paths : paths[r] \in DOMAIN fs.nodes
           /\ ContextFileInside(paths) =>
                  \E r \in DOMAIN paths \cap {"agents", "rules"} :
                      paths[r] = Parent(paths["context_file"])
    /\ \A i \in 1..Len(issues) : issues[i].message # "Agent directory not found"
    /\ \A i \in 1..Len(warnings) : warnings[i].message # "Agent directory not found"

\* a pass over two detected agents, one with its context file inside its
\* rules or agents directory, that recorded a structure error
C27_Witness ==
    /\ Returned
    /\ Len(detected) = 2
    /\ \E j \in 1..Len(detected) : ContextFileInside(detected[j].paths)
    /\ \E i \in 1..Len(issues) : issues[i].category = "structure"

----------------------------------------------------------------------------
(* C28: the agent of every recorded finding is the key of a detected       *)
(* agent, except the one detection warning of agent "none", which is       *)
(* recorded iff no agent was detected and is then the only finding.  A     *)
(* pass that returns no issue and no warning detected at least one agent.  *)

\* the finding is the detection warning
IsDetectionWarning(f) == f.agent = "none" /\ f.category = "detection"

C28_FindingsOfDetectedAgentsOnly ==
    Returned =>
        /\ \A i \in 1..Len(issues) : issues[i].agent \in DetectedKeys
        /\ \A i \in 1..Len(warnings) :
               warnings[i].agent \in DetectedKeys \/ IsDetectionWarning(warnings[i])
        /\ (\E i \in 1..Len(warnings) : IsDetectionWarning(warnings[i]))
               <=> detected = <<>>
        /\ detected = <<>> => Len(warnings) = 1 /\ issues = <<>>
        /\ (result.issues = <<>> /\ result.warnings = <<>>) => detected # <<>>

\* a pass that detected an agent and returned no issue and no warning
C28_Witness ==
    /\ Returned
    /\ result.issues = <<>>
    /\ result.warnings = <<>>
    /\ detected # <<>>
    /\ "context_file" \in DOMAIN detected[1].paths

----------------------------------------------------------------------------
(* C29: the `validate` command ends with exit status 1 iff the project     *)
(* path does not exist, is not a directory, or the validation returned at  *)
(* least one issue; with warnings only it ends normally ("passed with      *)
(* warnings"); it reports "All agent configurations are valid" iff the     *)
(* issue list and the warning list are both empty.                         *)

\* the project path is a directory
ProjectIsDirectory ==
    project_root \in DOMAIN fs.nodes /\ fs.nodes[project_root].kind = "dir"

C29_ExitStatusOfValidate ==
    cli.status = "exited" =>
        /\ cli.code \in {0, 1}
        /\ cli.code = 1 <=> (~ProjectIsDirectory \/ Len(result.issues) >= 1)
        /\ (ProjectIsDirectory /\ result.issues = <<>> /\ result.warnings # <<>>)
               => cli.code = 0 /\ cli.said = "Validation passed with warnings"
        /\ cli.said = "All agent configurations are valid"
               <=> /\ ProjectIsDirectory
                   /\ Returned
                   /\ result.issues = <<>>
                   /\ result.warnings = <<>>

\* the command ended normally after a validation with warnings only
C29_Witness ==
    /\ cli.status = "exited"
    /\ cli.code = 0
    /\ Returned
    /\ result.issues = <<>>
    /\ Len(result.warnings) >= 2

----------------------------------------------------------------------------
(* C30: on a non-Windows system, after ensure_executable_scripts with every *)
(* chmod succeeding, each regular non-symlink `*.sh` file under             *)
(* `.specify/scripts` that begins with `#!` has at least one execute bit; a *)
(* file that had an execute bit keeps its mode; a changed file has its old  *)
(* mode plus the execute bit of exactly the classes with the read bit, plus *)
(* the owner execute bit in every case; no bit is cleared, and a file       *)
(* without a shebang is left untouched.                                     *)

\* the function has returned on a non-Windows system and no chmod failed
EnsuredAllChmodsOk ==
    /\ pc = "ensured"
    /\ scripts.os_name # "nt"
    /\ scripts.failures = 0

PermissionBits == {256, 128, 64, 32, 16, 8, 4, 2, 1}

\* the execute bit of class (read bit r, execute bit x) is in new iff it was
\* in old or the class can read; for the owner it is in new in every case
ClassRule(old, new, r, x) == Has(new, x) <=> (Has(old, x) \/ Has(old, r) \/ x = S_IXUSR)

\* new is old plus execute bits chosen by the read bits, plus owner execute
PlusExecuteOfReaders(old, new) ==
    /\ ClassRule(old, new, S_IRUSR, S_IXUSR)
    /\ ClassRule(old, new, S_IRGRP, S_IXGRP)
    /\ ClassRule(old, new, S_IROTH, S_IXOTH)
    /\ \A b \in PermissionBits \ {S_IXUSR, S_IXGRP, S_IXOTH} : Has(new, b) <=> Has(old, b)

\* every regular file beginning with `#!` ends with an execute bit
C30_EveryShebangScriptExecutable ==
    EnsuredAllChmodsOk =>
        \A i \in 1..Len(scripts.before) :
            (scripts.before[i].kind = "file" /\ scripts.before[i].head = "#!")
                => AnyExecute(scripts.files[i].mode)

\* what the function does to the modes it changes and to the files it skips
C30_ModesOnlyGainExecuteBits ==
    EnsuredAllChmodsOk =>
        \A i \in 1..Len(scripts.before) :
            LET old == scripts.before[i]
                new == scripts.files[i]
            IN  /\ new.kind = old.kind /\ new.head = old.head
                /\ AnyExecute(old.mode) => new = old
                /\ new.mode # old.mode => PlusExecuteOfReaders(old.mode, new.mode)
                /\ \A b \in PermissionBits : Has(old.mode, b) => Has(new.mode, b)
                /\ (old.kind # "file" \/ old.head # "#!") => new = old

C30_ExecutableScriptsEnsured ==
    C30_EveryShebangScriptExecutable /\ C30_ModesOnlyGainExecuteBits

=============================================================================
